---- MODULE Spec2Model ----
(***************************************************************************)
(* A model of the MegaMemory knowledge-graph store (src/src/db.ts), its    *)
(* tool layer (tools.ts, kept as src/unnamed/part_007), the two-way merge  *)
(* engine (merge.ts, kept as src/unnamed/part_006) and the resolve command *)
(* (src/src/merge-cli.ts).                                                 *)
(*                                                                         *)
(* Text that the code inspects character by character (node ids, names,    *)
(* parent ids) is a sequence of one-character strings; text the code only  *)
(* copies or compares (summary, kind, reasons, merge groups) is a string.  *)
(* SQL NULL / JS undefined are the values NULL (text) and NULLID (ids).    *)
(***************************************************************************)
EXTENDS Integers, Sequences, FiniteSets, TLC

VARIABLES
    nodes,      \* rows of table nodes of the working store, in rowid order
    edges,      \* rows of table edges of the working store, in id order
    file2,      \* the second input file of `megamemory merge` ([nodes, edges])
    labels,     \* the --left-label / --right-label pair of the merge command
    merged,     \* TRUE once `megamemory merge` has run on the working store
    last,       \* history: the last operation, its arguments and its outcome
    pc,         \* the call of the server that is between two of its statements
    obs,        \* what the explorer read in its current poll
    timeline,   \* rows of table timeline, in seq order
    now,        \* the store's clock: the value of datetime('now'), in seconds
    extractor,  \* the module variable `extractor` of embeddings.ts, and the loads started
    schema,     \* the database file's schema: user_version, columns, tables
    held,       \* history: the live node ids and the edges held at the end of each past second
    files,      \* the other files of `megamemory merge`: the --into path and the temp sibling of file1
    lastKnown,  \* the explorer's lastKnownNodeIds, lastKnownNodeUpdates and lastKnownEdgeKeys
    sseClients, \* the explorer's connected clients, each with what was written to it
    uuids,      \* the values the calls of randomUUID() of the next merge return, in order
    runs        \* history: the MergeResult and the output store of each MergeEngine.merge so far

vars == <<nodes, edges, file2, labels, merged, last, pc, obs, timeline, now, extractor, schema, held, files, lastKnown, sseClients, uuids, runs>>

\* ---------------------------------------------------------------- bounds
MaxNodes == 2
MaxEdges == 2
MaxIdLen == 3

\* ------------------------------------------------------------ null values
NULL == "NULL"
NULLID == <<"NULL">>
UNDEF == <<"UNDEF">>

\* --------------------------------------------------------------- strings
LowerAlnum ==
    {"a","b","c","d","e","f","g","h","i","j","k","l","m","n","o","p","q","r",
     "s","t","u","v","w","x","y","z","0","1","2","3","4","5","6","7","8","9"}

toLowerCase(c) ==
    CASE c = "A" -> "a"
      [] c = "B" -> "b"
      [] OTHER -> c

RECURSIVE DropWhile(_, _)
DropWhile(s, set) ==
    IF s = <<>> \/ Head(s) \notin set THEN s ELSE DropWhile(Tail(s), set)

\* .replace(/[_\s]+/g, "-") and .replace(/-+/g, "-"): every maximal run of
\* characters of `set` becomes one "-".
RECURSIVE ReplaceRuns(_, _)
ReplaceRuns(s, set) ==
    IF s = <<>> THEN <<>>
    ELSE IF Head(s) \in set
         THEN <<"-">> \o ReplaceRuns(DropWhile(s, set), set)
         ELSE <<Head(s)>> \o ReplaceRuns(Tail(s), set)

\* TrimHyphen that removes the leading hyphen only.
TrimHyphen_LeadingOnly(s) == IF s # <<>> /\ Head(s) = "-" THEN Tail(s) ELSE s

\* .replace(/^-|-$/g, ""): one leading and one trailing hyphen are removed.
TrimHyphen(s) ==
    LET a == IF s # <<>> /\ Head(s) = "-" THEN Tail(s) ELSE s
    IN IF a # <<>> /\ a[Len(a)] = "-" THEN SubSeq(a, 1, Len(a) - 1) ELSE a

\* slugify that lets every character through.
slugify_KeepAll(name) == [i \in 1..Len(name) |-> toLowerCase(name[i])]

slugify(name) ==
    LET lowered == [i \in 1..Len(name) |-> toLowerCase(name[i])]
        hyphened == ReplaceRuns(lowered, {"_", " "})
        stripped == SelectSeq(hyphened, LAMBDA c : c \in LowerAlnum \cup {"-"})
        collapsed == ReplaceRuns(stripped, {"-"})
    IN TrimHyphen(collapsed)

\* parentId ? `${parentId}/${normalized}` : normalized  (undefined and the
\* empty string are both falsy)
Truthy(x) == x # UNDEF /\ x # NULLID /\ x # <<>>

makeId(name, parentId) ==
    IF Truthy(parentId) THEN parentId \o <<"/">> \o slugify(name) ELSE slugify(name)

MERGE_SUFFIX_LEFT == <<":", ":", "l", "e", "f", "t">>
MERGE_SUFFIX_RIGHT == <<":", ":", "r", "i", "g", "h", "t">>

endsWith(s, suf) ==
    Len(s) >= Len(suf) /\ SubSeq(s, Len(s) - Len(suf) + 1, Len(s)) = suf

stripMergeSuffix(id) ==
    IF endsWith(id, MERGE_SUFFIX_LEFT) THEN SubSeq(id, 1, Len(id) - Len(MERGE_SUFFIX_LEFT))
    ELSE IF endsWith(id, MERGE_SUFFIX_RIGHT) THEN SubSeq(id, 1, Len(id) - Len(MERGE_SUFFIX_RIGHT))
    ELSE id

hasMergeSuffix(id) == endsWith(id, MERGE_SUFFIX_LEFT) \/ endsWith(id, MERGE_SUFFIX_RIGHT)

\* ------------------------------------------------------- sequence helpers
Range(s) == {s[i] : i \in 1..Len(s)}

MapSeq(s, F(_)) == [i \in 1..Len(s) |-> F(s[i])]

\* ------------------------------------------------------------- the store
\* A row of table nodes (the columns the modelled operations read or write).
NodeRow(id, name, kind, summary, parent_id) ==
    [id |-> id, name |-> name, kind |-> kind, summary |-> summary, why |-> NULL,
     parent_id |-> parent_id, removed_at |-> NULL, removed_reason |-> NULL,
     merge_group |-> NULL, needs_merge |-> 0, source_branch |-> NULLID]

\* A row of table edges.
EdgeRow(from_id, to_id, relation) ==
    [from_id |-> from_id, to_id |-> to_id, relation |-> relation, description |-> NULL,
     merge_group |-> NULL, needs_merge |-> 0, source_branch |-> NULLID]

Ids(ns) == {ns[i].id : i \in 1..Len(ns)}

idExists(ns, id) == id \in Ids(ns)

getNodeIncludingRemoved(ns, id) ==
    IF idExists(ns, id) THEN (CHOOSE n \in Range(ns) : n.id = id) ELSE UNDEF

\* nodeExists that also finds soft-deleted rows.
nodeExists_AnyRow(ns, id) == \E i \in 1..Len(ns) : ns[i].id = id

getNode(ns, id) ==
    IF \E n \in Range(ns) : n.id = id /\ n.removed_at = NULL
    THEN (CHOOSE n \in Range(ns) : n.id = id) ELSE UNDEF

nodeExists(ns, id) == \E n \in Range(ns) : n.id = id /\ n.removed_at = NULL

LiveIds(ns) == {n.id : n \in {m \in Range(ns) : m.removed_at = NULL}}

\* INSERT INTO nodes: the primary key and the parent_id foreign key are
\* checked at the end of the statement, so a row may name itself as parent.
insertOk(ns, row) ==
    /\ ~idExists(ns, row.id)
    /\ row.parent_id = NULLID \/ row.parent_id = row.id \/ idExists(ns, row.parent_id)

\* INSERT INTO edges: both foreign keys must name an existing row.
insertEdgeOk(ns, e) == idExists(ns, e.from_id) /\ idExists(ns, e.to_id)

deleteEdgesForNode(es, id) == SelectSeq(es, LAMBDA e : e.from_id # id /\ e.to_id # id)

\* softDeleteNode deleting only the outgoing edges of the node.
softDeleteNode_KeepIncoming(ns, es, id, reason) ==
    IF nodeExists(ns, id)
    THEN [nodes |-> MapSeq(ns, LAMBDA n : IF n.id = id
                               THEN [n EXCEPT !.removed_at = "t", !.removed_reason = reason]
                               ELSE n),
          edges |-> SelectSeq(es, LAMBDA e : e.from_id # id),
          changed |-> TRUE]
    ELSE [nodes |-> ns, edges |-> es, changed |-> FALSE]

softDeleteNode(ns, es, id, reason) ==
    IF nodeExists(ns, id)
    THEN [nodes |-> MapSeq(ns, LAMBDA n : IF n.id = id
                               THEN [n EXCEPT !.removed_at = "t", !.removed_reason = reason]
                               ELSE n),
          edges |-> deleteEdgesForNode(es, id),
          changed |-> TRUE]
    ELSE [nodes |-> ns, edges |-> es, changed |-> FALSE]

\* hardDeleteNode without the cascade to the edges.
hardDeleteNode_KeepEdges(ns, es, id) ==
    [nodes |-> MapSeq(SelectSeq(ns, LAMBDA n : n.id # id),
                      LAMBDA n : IF n.parent_id = id THEN [n EXCEPT !.parent_id = NULLID] ELSE n),
     edges |-> es,
     changed |-> idExists(ns, id)]

\* DELETE FROM nodes: parent_id ... ON DELETE SET NULL, edges ... ON DELETE CASCADE.
hardDeleteNode(ns, es, id) ==
    [nodes |-> MapSeq(SelectSeq(ns, LAMBDA n : n.id # id),
                      LAMBDA n : IF n.parent_id = id THEN [n EXCEPT !.parent_id = NULLID] ELSE n),
     edges |-> deleteEdgesForNode(es, id),
     changed |-> idExists(ns, id)]

\* renameNodeId without the update of edges.to_id.
renameNodeId_KeepToId(ns, es, oldId, newId) ==
    IF ~idExists(ns, oldId) THEN [nodes |-> ns, edges |-> es, changed |-> FALSE, threw |-> FALSE]
    ELSE IF newId # oldId /\ idExists(ns, newId)
    THEN [nodes |-> ns, edges |-> es, changed |-> FALSE, threw |-> TRUE]
    ELSE [nodes |-> MapSeq(ns, LAMBDA n :
                        LET r == IF n.id = oldId THEN [n EXCEPT !.id = newId] ELSE n
                        IN IF r.parent_id = oldId THEN [r EXCEPT !.parent_id = newId] ELSE r),
          edges |-> MapSeq(es, LAMBDA e : [e EXCEPT !.from_id = IF @ = oldId THEN newId ELSE @]),
          changed |-> TRUE, threw |-> FALSE]

\* The transaction of renameNodeId; threw = TRUE is the UNIQUE violation, after
\* which the ROLLBACK leaves the store as it was.
renameNodeId(ns, es, oldId, newId) ==
    IF ~idExists(ns, oldId) THEN [nodes |-> ns, edges |-> es, changed |-> FALSE, threw |-> FALSE]
    ELSE IF newId # oldId /\ idExists(ns, newId)
    THEN [nodes |-> ns, edges |-> es, changed |-> FALSE, threw |-> TRUE]
    ELSE [nodes |-> MapSeq(ns, LAMBDA n :
                        LET r == IF n.id = oldId THEN [n EXCEPT !.id = newId] ELSE n
                        IN IF r.parent_id = oldId THEN [r EXCEPT !.parent_id = newId] ELSE r),
          edges |-> MapSeq(es, LAMBDA e :
                        [e EXCEPT !.from_id = IF @ = oldId THEN newId ELSE @,
                                  !.to_id = IF @ = oldId THEN newId ELSE @]),
          changed |-> TRUE, threw |-> FALSE]

\* clearNodeMergeFlags leaving merge_group in place.
clearNodeMergeFlags_KeepGroup(ns, id) ==
    MapSeq(ns, LAMBDA n : IF n.id = id
               THEN [n EXCEPT !.needs_merge = 0, !.source_branch = NULLID]
               ELSE n)

clearNodeMergeFlags(ns, id) ==
    MapSeq(ns, LAMBDA n : IF n.id = id
               THEN [n EXCEPT !.merge_group = NULL, !.needs_merge = 0, !.source_branch = NULLID]
               ELSE n)

clearEdgeMergeFlagsByGroup(es, g) ==
    MapSeq(es, LAMBDA e : IF e.merge_group = g
               THEN [e EXCEPT !.merge_group = NULL, !.needs_merge = 0, !.source_branch = NULLID]
               ELSE e)

getNodesByMergeGroup(ns, g) == SelectSeq(ns, LAMBDA n : n.merge_group = g)

getChildren(ns, parentId) ==
    SelectSeq(ns, LAMBDA n : n.parent_id = parentId /\ n.removed_at = NULL)

getRootNodes(ns) == SelectSeq(ns, LAMBDA n : n.parent_id = NULLID /\ n.removed_at = NULL)

getOutgoingEdges(ns, es, id) == SelectSeq(es, LAMBDA e : e.from_id = id /\ nodeExists(ns, e.to_id))

getIncomingEdges(ns, es, id) == SelectSeq(es, LAMBDA e : e.to_id = id /\ nodeExists(ns, e.from_id))

\* ---------------------------------------------------------- merge engine
\* x ?? "" on a text column and on an id column.
Coalesce(x) == IF x = NULL THEN "" ELSE x
CoalesceId(x) == IF x = NULLID THEN <<>> ELSE x

\* nodesAreIdentical without the comparison of the removed state.
nodesAreIdentical_IgnoreRemoved(l, r) ==
    /\ l.name = r.name
    /\ l.kind = r.kind
    /\ l.summary = r.summary
    /\ Coalesce(l.why) = Coalesce(r.why)
    /\ CoalesceId(l.parent_id) = CoalesceId(r.parent_id)

\* file_refs is not among the modelled columns.
nodesAreIdentical(l, r) ==
    /\ l.name = r.name
    /\ l.kind = r.kind
    /\ l.summary = r.summary
    /\ Coalesce(l.why) = Coalesce(r.why)
    /\ CoalesceId(l.parent_id) = CoalesceId(r.parent_id)
    /\ (l.removed_at # NULL) = (r.removed_at # NULL)

edgeKey(e) == <<e.from_id, e.to_id, e.relation, Coalesce(e.description)>>

edgeSetsAreIdentical(l, r) ==
    LET leftKeys == {edgeKey(e) : e \in Range(l)}
        rightKeys == {edgeKey(e) : e \in Range(r)}
    IN /\ Len(l) = Len(r)
       /\ Cardinality(leftKeys) = Cardinality(rightKeys)
       /\ leftKeys \subseteq rightKeys

\* randomUUID(): the k-th group minted by one merge; distinct from every
\* merge_group already stored in an input.
UUID_TABLE == <<"u1", "u2", "u3", "u4", "u5", "u6">>
randomUUID(k) == uuids[k]

\* leftVariantsByCanonical.get(id) ?? [] / leftEdgeMap.get(id) ?? []
variantsByCanonical(ns, id) == SelectSeq(ns, LAMBDA n : stripMergeSuffix(n.id) = id)
edgeMapGet(es, id) == SelectSeq(es, LAMBDA e : e.from_id = id)

RECURSIVE Dedup(_)
Dedup(s) ==
    IF s = <<>> THEN <<>>
    ELSE LET d == Dedup(SubSeq(s, 1, Len(s) - 1))
         IN IF s[Len(s)] \in Range(d) THEN d ELSE Append(d, s[Len(s)])

\* allIds: the canonical ids of the left rows, then of the right rows, in
\* insertion order of the Set.
allIds(leftNodes, rightNodes) ==
    Dedup(MapSeq(leftNodes, LAMBDA n : stripMergeSuffix(n.id))
          \o MapSeq(rightNodes, LAMBDA n : stripMergeSuffix(n.id)))

\* The state of performMerge between two statements; failed = TRUE once an
\* INSERT has thrown, after which nothing more is done.
MergeStart ==
    [nodes |-> <<>>, edges |-> <<>>, inserted |-> {}, deferred |-> <<>>, seen |-> {},
     remap |-> <<>>, conflictIds |-> {}, clean |-> 0, conceptConflicts |-> 0,
     edgeConflicts |-> 0, removedClean |-> 0, mergeGroups |-> <<>>, failed |-> FALSE]

\* outputDb.insertNodeRaw(row)
insertNodeRaw(acc, row) ==
    IF acc.failed THEN acc
    ELSE IF insertOk(acc.nodes, row) THEN [acc EXCEPT !.nodes = Append(@, row)]
    ELSE [acc EXCEPT !.failed = TRUE]

insertNodeOnce(acc, node) ==
    IF acc.failed \/ node.id \in acc.inserted THEN acc
    ELSE LET a == insertNodeRaw(acc, node)
         IN IF a.failed THEN a ELSE [a EXCEPT !.inserted = @ \cup {node.id}]

RECURSIVE insertAllOnce(_, _)
insertAllOnce(acc, ns) ==
    IF ns = <<>> THEN acc ELSE insertAllOnce(insertNodeOnce(acc, Head(ns)), Tail(ns))

\* A conflict row that also writes its merge_group into the column why.
insertConflictNode_GroupInWhy(acc, node, suffixedId, mergeGroup, sourceLabel) ==
    insertNodeRaw(acc, [node EXCEPT !.id = suffixedId, !.merge_group = mergeGroup,
                                    !.needs_merge = 1, !.source_branch = sourceLabel,
                                    !.why = mergeGroup])

insertConflictNode(acc, node, suffixedId, mergeGroup, sourceLabel) ==
    insertNodeRaw(acc, [node EXCEPT !.id = suffixedId, !.merge_group = mergeGroup,
                                    !.needs_merge = 1, !.source_branch = sourceLabel])

\* A queued edge: the edge row plus the input it was read from.
Deferred(e, from_id, mergeGroup, needsMerge, sourceBranch, side) ==
    [from_id |-> from_id, to_id |-> e.to_id, relation |-> e.relation,
     description |-> e.description, merge_group |-> mergeGroup, needs_merge |-> needsMerge,
     source_branch |-> sourceBranch, originSide |-> side]

deferPreexistingEdge(acc, e, side) ==
    LET key == <<e.from_id, e.to_id, e.relation, Coalesce(e.description), Coalesce(e.merge_group),
                 e.needs_merge, CoalesceId(e.source_branch)>>
    IN IF key \in acc.seen THEN acc
       ELSE [acc EXCEPT !.seen = @ \cup {key},
                        !.deferred = Append(@, Deferred(e, e.from_id, e.merge_group,
                                                        e.needs_merge, e.source_branch, side))]

RECURSIVE deferPreexistingEdges(_, _, _)
deferPreexistingEdges(acc, es, side) ==
    IF es = <<>> THEN acc
    ELSE deferPreexistingEdges(deferPreexistingEdge(acc, Head(es), side), Tail(es), side)

\* for (const node of preexistingLeft) for (const e of leftEdgeMap.get(node.id) ?? []) ...
RECURSIVE deferEdgesOfVariants(_, _, _, _)
deferEdgesOfVariants(acc, variants, es, side) ==
    IF variants = <<>> THEN acc
    ELSE deferEdgesOfVariants(deferPreexistingEdges(acc, edgeMapGet(es, Head(variants).id), side),
                              Tail(variants), es, side)

\* preexistingAll.find((n) => n.id.endsWith(suffix)) ?? fallback
findSuffixed(ns, suffix, fallback) ==
    IF \E i \in 1..Len(ns) : endsWith(ns[i].id, suffix)
    THEN ns[CHOOSE i \in 1..Len(ns) :
                /\ endsWith(ns[i].id, suffix)
                /\ \A j \in 1..(i - 1) : ~endsWith(ns[j].id, suffix)]
    ELSE fallback

\* The counting that takes every clean node for a live one.
countClean_AlwaysClean(acc, node) ==
    IF acc.failed THEN acc ELSE [acc EXCEPT !.clean = @ + 1]

\* The counting that leaves the soft-deleted clean nodes out.
countClean_LiveOnly(acc, node) ==
    IF acc.failed \/ node.removed_at # NULL THEN acc ELSE [acc EXCEPT !.clean = @ + 1]

\* result.removedClean++ or result.clean++
countClean(acc, node) ==
    IF acc.failed THEN acc
    ELSE IF node.removed_at # NULL THEN [acc EXCEPT !.removedClean = @ + 1]
    ELSE [acc EXCEPT !.clean = @ + 1]

\* One iteration of the PASS 1 loop over allIds.
pass1Step(acc, id, leftNodes, leftEdges, rightNodes, rightEdges, leftLabel, rightLabel) ==
    LET isPre(n) == n.needs_merge = 1 /\ n.merge_group # NULL /\ hasMergeSuffix(n.id)
        preexistingLeft == SelectSeq(variantsByCanonical(leftNodes, id), isPre)
        preexistingRight == SelectSeq(variantsByCanonical(rightNodes, id), isPre)
        preexistingAll == preexistingLeft \o preexistingRight
        hasLeft == idExists(leftNodes, id)
        hasRight == idExists(rightNodes, id)
        leftNode == getNodeIncludingRemoved(leftNodes, id)
        rightNode == getNodeIncludingRemoved(rightNodes, id)
    IN IF acc.failed THEN acc
       ELSE IF preexistingAll # <<>>
       THEN LET a1 == insertAllOnce(acc, preexistingAll)
                leftTarget == findSuffixed(preexistingAll, MERGE_SUFFIX_LEFT, preexistingAll[1])
                rightTarget == findSuffixed(preexistingAll, MERGE_SUFFIX_RIGHT,
                                            preexistingAll[Len(preexistingAll)])
                a2 == [a1 EXCEPT !.remap = (<<"left", id>> :> leftTarget.id)
                                           @@ (<<"right", id>> :> rightTarget.id) @@ @]
                a3 == deferEdgesOfVariants(a2, preexistingLeft, leftEdges, "left")
                a4 == deferEdgesOfVariants(a3, preexistingRight, rightEdges, "right")
            IN IF a1.failed THEN a1 ELSE [a4 EXCEPT !.conflictIds = @ \cup {id}]
       ELSE IF ~hasLeft /\ hasRight THEN countClean(insertNodeOnce(acc, rightNode), rightNode)
       ELSE IF hasLeft /\ ~hasRight THEN countClean(insertNodeOnce(acc, leftNode), leftNode)
       ELSE IF hasLeft /\ hasRight
       THEN IF nodesAreIdentical(leftNode, rightNode)
            THEN countClean(insertNodeOnce(acc, leftNode), leftNode)
            ELSE LET mergeGroup == randomUUID(Len(acc.mergeGroups) + 1)
                     leftSuffixed == id \o MERGE_SUFFIX_LEFT
                     rightSuffixed == id \o MERGE_SUFFIX_RIGHT
                     a1 == [acc EXCEPT !.conflictIds = @ \cup {id},
                                       !.mergeGroups = Append(@, mergeGroup),
                                       !.conceptConflicts = @ + 1,
                                       !.remap = (<<"left", id>> :> leftSuffixed)
                                                 @@ (<<"right", id>> :> rightSuffixed) @@ @]
                     a2 == insertConflictNode(a1, leftNode, leftSuffixed, mergeGroup, leftLabel)
                     a3 == insertConflictNode(a2, rightNode, rightSuffixed, mergeGroup, rightLabel)
                     leftNodeEdges == edgeMapGet(leftEdges, id)
                     rightNodeEdges == edgeMapGet(rightEdges, id)
                     edgesConflict == ~edgeSetsAreIdentical(leftNodeEdges, rightNodeEdges)
                     flag(e, from, label, side) ==
                         IF edgesConflict THEN Deferred(e, from, mergeGroup, 1, label, side)
                         ELSE Deferred(e, from, NULL, 0, NULLID, side)
                 IN IF a3.failed THEN a3
                    ELSE [a3 EXCEPT
                            !.edgeConflicts =
                                IF edgesConflict /\ (leftNodeEdges # <<>> \/ rightNodeEdges # <<>>)
                                THEN @ + 1 ELSE @,
                            !.deferred =
                                @ \o MapSeq(leftNodeEdges, LAMBDA e : flag(e, leftSuffixed, leftLabel, "left"))
                                  \o MapSeq(rightNodeEdges, LAMBDA e : flag(e, rightSuffixed, rightLabel, "right"))]
       ELSE acc

RECURSIVE pass1(_, _, _, _, _, _, _, _)
pass1(acc, ids, leftNodes, leftEdges, rightNodes, rightEdges, leftLabel, rightLabel) ==
    IF ids = <<>> THEN acc
    ELSE pass1(pass1Step(acc, Head(ids), leftNodes, leftEdges, rightNodes, rightEdges,
                         leftLabel, rightLabel),
               Tail(ids), leftNodes, leftEdges, rightNodes, rightEdges, leftLabel, rightLabel)

\* deferEdgesForNode: the edges of a node present on one side only.
deferEdgesForNode(deferred, es, nodeId, side) ==
    deferred \o MapSeq(edgeMapGet(es, nodeId), LAMBDA e : Deferred(e, e.from_id, NULL, 0, NULLID, side))

\* The loop of deferEdgesClean over one side: an edge whose content key was
\* already seen is skipped.
RECURSIVE deferUnseen(_, _, _)
deferUnseen(st, es, side) ==
    IF es = <<>> THEN st
    ELSE deferUnseen(IF edgeKey(Head(es)) \in st.seen THEN st
                     ELSE [seen |-> st.seen \cup {edgeKey(Head(es))},
                           deferred |-> Append(st.deferred,
                                               Deferred(Head(es), Head(es).from_id, NULL, 0, NULLID, side))],
                     Tail(es), side)

\* deferEdgesClean: the union of the edges of a node identical on both sides.
deferEdgesClean(deferred, leftEdges, rightEdges, nodeId) ==
    deferUnseen(deferUnseen([seen |-> {}, deferred |-> deferred],
                            edgeMapGet(leftEdges, nodeId), "left"),
                edgeMapGet(rightEdges, nodeId), "right").deferred

\* One iteration of the first PASS 2 loop.
pass2Step(acc, id, leftNodes, leftEdges, rightNodes, rightEdges) ==
    LET hasLeft == idExists(leftNodes, id)
        hasRight == idExists(rightNodes, id)
        leftNode == getNodeIncludingRemoved(leftNodes, id)
    IN IF id \in acc.conflictIds THEN acc
       ELSE IF hasLeft /\ leftNode.needs_merge # 0 /\ leftNode.merge_group # NULL THEN acc
       ELSE IF ~hasLeft /\ hasRight
       THEN [acc EXCEPT !.deferred = deferEdgesForNode(@, rightEdges, id, "right")]
       ELSE IF hasLeft /\ ~hasRight
       THEN [acc EXCEPT !.deferred = deferEdgesForNode(@, leftEdges, id, "left")]
       ELSE IF hasLeft /\ hasRight
       THEN [acc EXCEPT !.deferred = deferEdgesClean(@, leftEdges, rightEdges, id)]
       ELSE acc

RECURSIVE pass2(_, _, _, _, _, _)
pass2(acc, ids, leftNodes, leftEdges, rightNodes, rightEdges) ==
    IF ids = <<>> THEN acc
    ELSE pass2(pass2Step(acc, Head(ids), leftNodes, leftEdges, rightNodes, rightEdges),
               Tail(ids), leftNodes, leftEdges, rightNodes, rightEdges)

\* The remap that ignores the side an edge was read from.
remapToId_AlwaysLeft(remap, d) ==
    IF <<"left", d.to_id>> \in DOMAIN remap THEN remap[<<"left", d.to_id>>] ELSE d.to_id

\* idRemapping.get(`${edge._originSide}:${edge.to_id}`) ?? edge.to_id
remapToId(remap, d) ==
    IF <<d.originSide, d.to_id>> \in DOMAIN remap THEN remap[<<d.originSide, d.to_id>>] ELSE d.to_id

\* The second PASS 2 loop: outputDb.insertEdgeRaw of every queued edge.
RECURSIVE insertDeferred(_, _)
insertDeferred(acc, ds) ==
    IF acc.failed \/ ds = <<>> THEN acc
    ELSE LET d == Head(ds)
             e == [from_id |-> d.from_id, to_id |-> remapToId(acc.remap, d),
                   relation |-> d.relation, description |-> d.description,
                   merge_group |-> d.merge_group, needs_merge |-> d.needs_merge,
                   source_branch |-> d.source_branch]
         IN insertDeferred(IF insertEdgeOk(acc.nodes, e) THEN [acc EXCEPT !.edges = Append(@, e)]
                           ELSE [acc EXCEPT !.failed = TRUE],
                           Tail(ds))

performMerge(leftNodes, leftEdges, rightNodes, rightEdges, leftLabel, rightLabel) ==
    LET ids == allIds(leftNodes, rightNodes)
        p1 == pass1(MergeStart, ids, leftNodes, leftEdges, rightNodes, rightEdges,
                    leftLabel, rightLabel)
        p2 == IF p1.failed THEN p1 ELSE pass2(p1, ids, leftNodes, leftEdges, rightNodes, rightEdges)
    IN insertDeferred(p2, p2.deferred)

\* ------------------------------------------------------------ tool layer
UNDEFINED == "undefined"

\* History record of the last operation.
Op(op, id, arg, ok) == [op |-> op, id |-> id, arg |-> arg, ok |-> ok]

\* An operation that failed and left the store as it was.
Failed(op) == Op(op, NULLID, NULLID, FALSE)

EmptyStore == [nodes |-> <<>>, edges |-> <<>>]

\* No call in progress; no poll of the explorer yet.
Idle == [op |-> "idle"]
NoObs == [phase |-> "none"]

\* A path of the merge command that holds no file.
Absent == [absent |-> TRUE]
NoFiles == [into |-> Absent, tmp |-> Absent]

\* The explorer's change detection before initializeSseSnapshot.
NoSnapshot == [nodeIds |-> {}, nodeUpdates |-> {}, edgeKeys |-> {}]

\* embeddings.ts before the first embed call: no model, no load started.
NoExtractor == [model |-> NULL, loads |-> 0]

\* The columns of the two tables that the code reads by name, without and with
\* the merge metadata that schema version 2 added.
BaseNodeCols == {"id", "name", "kind", "summary", "why", "parent_id", "updated_at",
                 "removed_at", "removed_reason", "embedding"}
BaseEdgeCols == {"from_id", "to_id", "relation", "description"}
MergeCols == {"merge_group", "needs_merge", "source_branch", "merge_timestamp"}
SCHEMA_VERSION == 3

\* A table that does not exist has no columns.
SchemaOf(version, nodeCols, edgeCols, hasTimeline) ==
    [user_version |-> version, nodes |-> nodeCols, edges |-> edgeCols, timeline |-> hasTimeline]
LatestSchema ==
    SchemaOf(SCHEMA_VERSION, BaseNodeCols \cup MergeCols, BaseEdgeCols \cup MergeCols, TRUE)

NoLabels == [leftLabel |-> UNDEF, rightLabel |-> UNDEF]

\* Inputs of the tools.
Names == {<<"A">>, <<"!">>}
Summaries == {"s1", "s2"}
Reasons == {"r1", "r2"}
Relations == {"calls"}
NoSuchId == <<"z">>
IdInputs == Ids(nodes) \cup {NoSuchId}
ParentInputs == {UNDEF, <<>>} \cup IdInputs
EdgeInputs == {<<>>} \cup {<<[to |-> t, relation |-> r]>> : t \in IdInputs \cup {<<"a">>}, r \in Relations}
NoChange == [name |-> UNDEF, kind |-> UNDEFINED, summary |-> UNDEFINED, why |-> UNDEFINED]
ChangeInputs == {NoChange} \cup {[NoChange EXCEPT !.summary = s] : s \in Summaries}
NewIdInputs == Ids(nodes) \cup {<<"c">>}

\* The loop over input.edges of createConcept: an edge is inserted only to a
\* live target.
RECURSIVE createEdges(_, _, _, _)
createEdges(ns, es, id, edgesIn) ==
    IF edgesIn = <<>> THEN es
    ELSE createEdges(ns,
                     IF nodeExists(ns, Head(edgesIn).to)
                     THEN Append(es, EdgeRow(id, Head(edgesIn).to, Head(edgesIn).relation))
                     ELSE es,
                     id, Tail(edgesIn))

\* The errors of createConcept: the two it throws itself and the two
\* constraint failures of the INSERT.
ERR_EXISTS == "already exists"
ERR_PARENT == "parent does not exist"
ERR_UNIQUE == "UNIQUE constraint failed: nodes.id"
ERR_FOREIGN_KEY == "FOREIGN KEY constraint failed"

\* createConcept: the result store, or the input store and the error when
\* the call throws.
createConcept(ns, es, name, parent, summary, edgesIn) ==
    LET id == makeId(name, parent)
        row == NodeRow(id, name, "module", summary, IF parent = UNDEF THEN NULLID ELSE parent)
        thrown(e) == [nodes |-> ns, edges |-> es, ok |-> FALSE, id |-> id, error |-> e]
    IN IF nodeExists(ns, id) THEN thrown(ERR_EXISTS)
       ELSE IF Truthy(parent) /\ ~nodeExists(ns, parent) THEN thrown(ERR_PARENT)
       ELSE IF idExists(ns, id) THEN thrown(ERR_UNIQUE)
       ELSE IF ~insertOk(ns, row) THEN thrown(ERR_FOREIGN_KEY)
       ELSE [nodes |-> Append(ns, row),
             edges |-> createEdges(Append(ns, row), es, id, edgesIn),
             ok |-> TRUE, id |-> id, error |-> NULL]

\* KnowledgeDB.updateNode: only the supplied fields are written; FALSE when no
\* field was supplied or the row is not live.
updateNode(ns, id, changes) ==
    IF changes = NoChange \/ ~nodeExists(ns, id) THEN [nodes |-> ns, changed |-> FALSE]
    ELSE [nodes |-> MapSeq(ns, LAMBDA n : IF n.id # id THEN n ELSE
                       [n EXCEPT !.name = IF changes.name # UNDEF THEN changes.name ELSE @,
                                 !.kind = IF changes.kind # UNDEFINED THEN changes.kind ELSE @,
                                 !.summary = IF changes.summary # UNDEFINED THEN changes.summary ELSE @,
                                 !.why = IF changes.why # UNDEFINED THEN changes.why ELSE @]),
          changed |-> TRUE]

CreateConcept(name, parent, summary, edgesIn) ==
    /\ Len(nodes) < MaxNodes
    /\ Len(edges) + Len(edgesIn) <= MaxEdges
    /\ Len(makeId(name, parent)) <= MaxIdLen
    /\ LET r == createConcept(nodes, edges, name, parent, summary, edgesIn)
       IN /\ nodes' = r.nodes
          /\ edges' = r.edges
          /\ last' = IF r.ok THEN Op("create_concept", r.id, NULLID, TRUE) ELSE Failed("create_concept")
    /\ UNCHANGED <<file2, labels, merged, pc, obs, timeline, now, extractor, schema, held, files, lastKnown, sseClients, uuids, runs>>

UpdateConcept(id, changes) ==
    /\ LET r == updateNode(nodes, id, changes)
       IN /\ nodes' = r.nodes
          /\ last' = IF nodeExists(nodes, id) THEN Op("update_concept", id, NULLID, TRUE)
                      ELSE Failed("update_concept")
    /\ UNCHANGED <<edges, file2, labels, merged, pc, obs, timeline, now, extractor, schema, held, files, lastKnown, sseClients, uuids, runs>>

\* link accepting a soft-deleted target.
Link_ToAnyRow(from, to, relation) ==
    /\ Len(edges) < MaxEdges
    /\ LET ok == nodeExists(nodes, from) /\ idExists(nodes, to)
       IN /\ edges' = IF ok THEN Append(edges, EdgeRow(from, to, relation)) ELSE edges
          /\ last' = IF ok THEN Op("link", from, to, TRUE) ELSE Failed("link")
    /\ UNCHANGED <<nodes, file2, labels, merged, pc, obs, timeline, now, extractor, schema, held, files, lastKnown, sseClients, uuids, runs>>

Link(from, to, relation) ==
    /\ Len(edges) < MaxEdges
    /\ LET ok == nodeExists(nodes, from) /\ nodeExists(nodes, to)
       IN /\ edges' = IF ok THEN Append(edges, EdgeRow(from, to, relation)) ELSE edges
          /\ last' = IF ok THEN Op("link", from, to, TRUE) ELSE Failed("link")
    /\ UNCHANGED <<nodes, file2, labels, merged, pc, obs, timeline, now, extractor, schema, held, files, lastKnown, sseClients, uuids, runs>>

RemoveConcept(id, reason) ==
    /\ LET r == softDeleteNode(nodes, edges, id, reason)
       IN /\ nodes' = r.nodes
          /\ edges' = r.edges
          /\ last' = IF r.changed THEN Op("remove_concept", id, <<reason>>, TRUE)
                      ELSE Failed("remove_concept")
    /\ UNCHANGED <<file2, labels, merged, pc, obs, timeline, now, extractor, schema, held, files, lastKnown, sseClients, uuids, runs>>

HardDeleteNode(id) ==
    /\ LET r == hardDeleteNode(nodes, edges, id)
       IN /\ nodes' = r.nodes
          /\ edges' = r.edges
          /\ last' = IF r.changed THEN Op("hard_delete_node", id, NULLID, TRUE)
                      ELSE Failed("hard_delete_node")
    /\ UNCHANGED <<file2, labels, merged, pc, obs, timeline, now, extractor, schema, held, files, lastKnown, sseClients, uuids, runs>>

RenameNodeId(oldId, newId) ==
    /\ LET r == renameNodeId(nodes, edges, oldId, newId)
       IN /\ nodes' = r.nodes
          /\ edges' = r.edges
          /\ last' = IF r.changed THEN Op("rename_node_id", oldId, newId, TRUE)
                      ELSE Failed("rename_node_id")
    /\ UNCHANGED <<file2, labels, merged, pc, obs, timeline, now, extractor, schema, held, files, lastKnown, sseClients, uuids, runs>>

Init ==
    /\ nodes = <<>>
    /\ edges = <<>>
    /\ file2 = EmptyStore
    /\ labels = NoLabels
    /\ merged = FALSE
    /\ last = Op("init", NULLID, NULLID, TRUE)
    /\ pc = Idle
    /\ obs = NoObs
    /\ timeline = <<>>
    /\ now = 0
    /\ extractor = NoExtractor
    /\ schema = LatestSchema
    /\ held = <<>>
    /\ files = NoFiles
    /\ lastKnown = NoSnapshot
    /\ sseClients = <<>>
    /\ uuids = UUID_TABLE
    /\ runs = <<>>

Next ==
    \/ \E name \in Names, parent \in ParentInputs, summary \in Summaries, edgesIn \in EdgeInputs :
           CreateConcept(name, parent, summary, edgesIn)
    \/ \E id \in IdInputs, changes \in ChangeInputs : UpdateConcept(id, changes)
    \/ \E from \in IdInputs, to \in IdInputs, relation \in Relations : Link(from, to, relation)
    \/ \E id \in IdInputs, reason \in Reasons : RemoveConcept(id, reason)
    \/ \E id \in IdInputs : HardDeleteNode(id)
    \/ \E oldId \in IdInputs, newId \in NewIdInputs : RenameNodeId(oldId, newId)

Spec == Init /\ [][Next]_vars

\* -------------------------------------------------------------- merge CLI
\* MergeEngine.merge: the labels default to "left" and "right".
LEFT == <<"l", "e", "f", "t">>
RIGHT == <<"r", "i", "g", "h", "t">>
merge(left, right, options) ==
    performMerge(left.nodes, left.edges, right.nodes, right.edges,
                 IF options.leftLabel = UNDEF THEN LEFT ELSE options.leftLabel,
                 IF options.rightLabel = UNDEF THEN RIGHT ELSE options.rightLabel)

\* `megamemory merge <file1> <file2>` without --into: the output replaces file1
\* when the engine returns and is discarded when it throws.
RunMerge ==
    /\ ~merged
    /\ LET r == merge([nodes |-> nodes, edges |-> edges], file2, labels)
       IN IF r.failed
          THEN /\ UNCHANGED <<nodes, edges>>
               /\ last' = Failed("merge")
          ELSE /\ nodes' = r.nodes
               /\ edges' = r.edges
               /\ last' = Op("merge", NULLID,
                             [clean |-> r.clean, conceptConflicts |-> r.conceptConflicts,
                              edgeConflicts |-> r.edgeConflicts, removedClean |-> r.removedClean,
                              mergeGroups |-> r.mergeGroups], TRUE)
    /\ merged' = TRUE
    /\ UNCHANGED <<file2, labels, pc, obs, timeline, now, extractor, schema, held, files, lastKnown, sseClients, uuids, runs>>

\* The --keep both branch for one side: rename the variant to
\* <originalId>-<source_branch ?? side> and clear its flags.
keepVariant(st, present, node, originalId, side) ==
    IF ~st.ok \/ ~present THEN st
    ELSE LET newId == originalId \o <<"-">>
                      \o (IF node.source_branch = NULLID THEN side ELSE node.source_branch)
             r == renameNodeId(st.nodes, st.edges, node.id, newId)
         IN IF r.threw THEN [st EXCEPT !.ok = FALSE, !.threw = TRUE]
            ELSE [nodes |-> clearNodeMergeFlags(r.nodes, newId), edges |-> r.edges,
                  ok |-> TRUE, threw |-> FALSE]

\* runResolve after its argument checks; ok = FALSE is exit code 1 or, with
\* threw = TRUE, an exception of renameNodeId, and what was written before it
\* stays written.
runResolve(ns, es, mergeGroup, keep) ==
    LET group == getNodesByMergeGroup(ns, mergeGroup)
        hasLeft == \E i \in 1..Len(group) : endsWith(group[i].id, MERGE_SUFFIX_LEFT)
        hasRight == \E i \in 1..Len(group) : endsWith(group[i].id, MERGE_SUFFIX_RIGHT)
        leftNode == findSuffixed(group, MERGE_SUFFIX_LEFT, group[1])
        rightNode == findSuffixed(group, MERGE_SUFFIX_RIGHT, group[1])
        originalId == stripMergeSuffix(group[1].id)
        start == [nodes |-> ns, edges |-> es, ok |-> TRUE, threw |-> FALSE]
    IN IF group = <<>> \/ (~hasLeft /\ ~hasRight) THEN [start EXCEPT !.ok = FALSE]
       ELSE IF keep = "both"
       THEN LET l == keepVariant(start, hasLeft, leftNode, originalId, LEFT)
                r == keepVariant(l, hasRight, rightNode, originalId, RIGHT)
            IN IF r.ok THEN [r EXCEPT !.edges = clearEdgeMergeFlagsByGroup(@, mergeGroup)] ELSE r
       ELSE LET hasWinner == IF keep = "left" THEN hasLeft ELSE hasRight
                hasLoser == IF keep = "left" THEN hasRight ELSE hasLeft
                winner == IF keep = "left" THEN leftNode ELSE rightNode
                loser == IF keep = "left" THEN rightNode ELSE leftNode
                d == IF hasLoser THEN hardDeleteNode(ns, es, loser.id)
                     ELSE [nodes |-> ns, edges |-> es, changed |-> FALSE]
                r == renameNodeId(d.nodes, d.edges, winner.id, originalId)
            IN IF ~hasWinner THEN [start EXCEPT !.ok = FALSE]
               ELSE IF r.threw
               THEN [nodes |-> d.nodes, edges |-> d.edges, ok |-> FALSE, threw |-> TRUE]
               ELSE [nodes |-> clearNodeMergeFlags(r.nodes, originalId),
                     edges |-> clearEdgeMergeFlagsByGroup(r.edges, mergeGroup),
                     ok |-> TRUE, threw |-> FALSE]

\* `megamemory resolve <merge_group> --keep <keep>` on the merged store.
RunResolve(mergeGroup, keep) ==
    /\ merged
    /\ LET r == runResolve(nodes, edges, mergeGroup, keep)
           group == getNodesByMergeGroup(nodes, mergeGroup)
       IN /\ nodes' = r.nodes
          /\ edges' = r.edges
          /\ last' = IF r.ok \/ r.threw
                     THEN Op("resolve", stripMergeSuffix(group[1].id), <<mergeGroup, keep>>, r.ok)
                     ELSE Failed("resolve")
    /\ UNCHANGED <<file2, labels, merged, pc, obs, timeline, now, extractor, schema, held, files, lastKnown, sseClients, uuids, runs>>

\* SELECT * FROM nodes WHERE needs_merge = 1, soft-deleted rows included.
getConflictNodes(ns) == SelectSeq(ns, LAMBDA n : n.needs_merge = 1)

\* list_conflicts: the merge groups of the rows that need a merge.
listConflicts(ns) == {n.merge_group : n \in Range(getConflictNodes(ns))}

RECURSIVE hardDeleteAll(_, _)
hardDeleteAll(st, rows) ==
    IF rows = <<>> THEN st
    ELSE LET d == hardDeleteNode(st.nodes, st.edges, Head(rows).id)
         IN hardDeleteAll([nodes |-> d.nodes, edges |-> d.edges], Tail(rows))

\* The version resolve_conflict keeps: the live one when the group holds a
\* soft-deleted and a live version, the ::left one otherwise.
pickWinner(group) ==
    LET live == SelectSeq(group, LAMBDA n : n.removed_at = NULL)
        removed == SelectSeq(group, LAMBDA n : n.removed_at # NULL)
    IN IF live # <<>> /\ removed # <<>> THEN live[1]
       ELSE findSuffixed(group, MERGE_SUFFIX_LEFT, group[1])

\* resolve_conflict: hard-delete the losers, rename the winner to the
\* canonical id, apply the resolved patch, clear the merge flags of the winner
\* and of the edges of the group.  One transaction: a failure leaves the store
\* as it was.
resolveConflict(ns, es, mergeGroup, resolved) ==
    LET group == getNodesByMergeGroup(ns, mergeGroup)
        winner == pickWinner(group)
        canonical == stripMergeSuffix(winner.id)
        d == hardDeleteAll([nodes |-> ns, edges |-> es],
                           SelectSeq(group, LAMBDA n : n.id # winner.id))
        r == renameNodeId(d.nodes, d.edges, winner.id, canonical)
        u == updateNode(r.nodes, canonical, resolved)
    IN IF group = <<>> THEN [nodes |-> ns, edges |-> es, ok |-> FALSE, id |-> NULLID]
       ELSE IF r.threw THEN [nodes |-> ns, edges |-> es, ok |-> FALSE, id |-> NULLID]
       ELSE [nodes |-> clearNodeMergeFlags(u.nodes, canonical),
             edges |-> clearEdgeMergeFlagsByGroup(r.edges, mergeGroup),
             ok |-> TRUE, id |-> canonical]

ResolvedInputs == {[NoChange EXCEPT !.summary = "final"]}

\* The resolve_conflict tool on the merged store.
ResolveConflict(mergeGroup, resolved) ==
    /\ merged
    /\ LET r == resolveConflict(nodes, edges, mergeGroup, resolved)
       IN /\ nodes' = r.nodes
          /\ edges' = r.edges
          /\ last' = IF r.ok THEN Op("resolve_conflict", r.id, <<mergeGroup, resolved>>, TRUE)
                     ELSE Failed("resolve_conflict")
    /\ UNCHANGED <<file2, labels, merged, pc, obs, timeline, now, extractor, schema, held, files, lastKnown, sseClients, uuids, runs>>

\* The inputs of the merge: two stores over the canonical ids a and b.  Each
\* id is absent, live, soft-deleted, or held as the ::left / ::right pair an
\* earlier merge left unresolved; a store has at most MaxInputEdges edges,
\* each from a live row of a to a live row of b or from a::left to a::right.
MaxInputEdges == 1
CanonA == <<"a">>
CanonB == <<"b">>
VariantInputs == {[left |-> "s1", right |-> "s2", group |-> 1],
                  [left |-> "s2", right |-> "s1", group |-> 2]}
\* The merge_group an earlier merge minted for the variants of id.
groupOf(id, k) == IF id = CanonA THEN <<"ga1", "ga2">>[k] ELSE <<"gb1", "gb2">>[k]
SlotInputs ==
    {[slot |-> "absent"]}
    \cup {[slot |-> "live", summary |-> s] : s \in Summaries}
    \cup {[slot |-> "removed", summary |-> s] : s \in Summaries}
    \cup {[slot |-> "variants", v |-> v] : v \in VariantInputs}

\* The second id takes every kind of slot, the soft-deleted one and the
\* variants with one content each.
SlotInputsB ==
    {sl \in SlotInputs : \/ sl.slot \in {"absent", "live"}
                         \/ sl.slot = "removed" /\ sl.summary = "s1"
                         \/ sl.slot = "variants" /\ sl.v.group = 1}

slotRows(id, name, sl) ==
    CASE sl.slot = "absent" -> <<>>
      [] sl.slot = "live" -> <<NodeRow(id, name, "feature", sl.summary, NULLID)>>
      [] sl.slot = "removed" ->
            <<[NodeRow(id, name, "feature", sl.summary, NULLID)
                 EXCEPT !.removed_at = "t", !.removed_reason = "r1"]>>
      [] sl.slot = "variants" ->
            <<[NodeRow(id \o MERGE_SUFFIX_LEFT, name, "feature", sl.v.left, NULLID)
                 EXCEPT !.merge_group = groupOf(id, sl.v.group), !.needs_merge = 1,
                        !.source_branch = LEFT],
              [NodeRow(id \o MERGE_SUFFIX_RIGHT, name, "feature", sl.v.right, NULLID)
                 EXCEPT !.merge_group = groupOf(id, sl.v.group), !.needs_merge = 1,
                        !.source_branch = RIGHT]>>

edgeChoices(ns) ==
    LET candidates == {EdgeRow(f, t, r) :
                          f \in {i \in LiveIds(ns) : stripMergeSuffix(i) = CanonA},
                          t \in {i \in LiveIds(ns) : stripMergeSuffix(i) = CanonB},
                          r \in Relations}
                      \cup {EdgeRow(f, t, r) :
                               f \in {i \in LiveIds(ns) : i = CanonA \o MERGE_SUFFIX_LEFT},
                               t \in {i \in LiveIds(ns) : i = CanonA \o MERGE_SUFFIX_RIGHT},
                               r \in Relations}
    IN UNION {[1..k -> candidates] : k \in 0..MaxInputEdges}

InputStores ==
    UNION {LET ns == slotRows(CanonA, <<"A">>, sa) \o slotRows(CanonB, <<"B">>, sb)
           IN {[nodes |-> ns, edges |-> es] : es \in edgeChoices(ns)}
           : sa \in SlotInputs, sb \in SlotInputsB}

LabelInputs == {NoLabels, [leftLabel |-> <<"m">>, rightLabel |-> <<"m">>]}
KeepInputs == {"left", "right", "both"}
GroupInputs == ({n.merge_group : n \in Range(nodes)} \ {NULL}) \cup {"g0"}

InitMerge ==
    /\ \E left \in InputStores : nodes = left.nodes /\ edges = left.edges
    /\ file2 \in InputStores
    /\ labels \in LabelInputs
    /\ merged = FALSE
    /\ last = Op("init", NULLID, NULLID, TRUE)
    /\ pc = Idle
    /\ obs = NoObs
    /\ timeline = <<>>
    /\ now = 0
    /\ extractor = NoExtractor
    /\ schema = LatestSchema
    /\ held = <<>>
    /\ files = NoFiles
    /\ lastKnown = NoSnapshot
    /\ sseClients = <<>>
    /\ uuids = UUID_TABLE
    /\ runs = <<>>

NextMerge ==
    \/ RunMerge
    \/ \E mergeGroup \in GroupInputs, keep \in KeepInputs : RunResolve(mergeGroup, keep)
    \/ \E mergeGroup \in GroupInputs, resolved \in ResolvedInputs :
          ResolveConflict(mergeGroup, resolved)

SpecMerge == InitMerge /\ [][NextMerge]_vars

\* ------------------------------------------------- create_concept, call by call
\* The stores create_concept is called on: the id a absent, live or
\* soft-deleted, or held as the flagged ::left / ::right pair of a merge; with
\* a present, its child a/a absent, live or soft-deleted; at most one edge
\* between live rows.
MaxCreateEdges == 2
ChildA == <<"a", "/", "a">>
CreateSlots == {"absent", "live", "removed"}
createRows(sa, sc) ==
    LET rowA == NodeRow(CanonA, <<"A">>, "module", "s1", NULLID)
        rowC == NodeRow(ChildA, <<"A">>, "module", "s1", CanonA)
        removed(row) == [row EXCEPT !.removed_at = "t", !.removed_reason = "r1"]
    IN (CASE sa = "absent" -> <<>>
          [] sa = "live" -> <<rowA>>
          [] sa = "removed" -> <<removed(rowA)>>
          [] sa = "variants" -> slotRows(CanonA, <<"A">>, [slot |-> "variants",
                                                          v |-> [left |-> "s1", right |-> "s2", group |-> 1]]))
       \o (CASE sc = "absent" -> <<>>
             [] sc = "live" -> <<rowC>>
             [] sc = "removed" -> <<removed(rowC)>>)

childSlots(sa) == {sc \in CreateSlots : sc = "absent" \/ sa \in {"live", "removed"}}
storesOver(ns) ==
    {[nodes |-> ns, edges |-> es] :
        es \in {<<>>} \cup {<<EdgeRow(f, t, r)>> :
                               f \in LiveIds(ns), t \in LiveIds(ns), r \in Relations}}
CreateStores ==
    UNION {UNION {storesOver(createRows(sa, sc)) : sc \in childSlots(sa)}
           : sa \in CreateSlots \cup {"variants"}}

CreateNames == {<<"A">>, <<"!">>, <<"a", ":", ":", "l", "e", "f", "t">>, <<":", ":", "l", "e", "f", "t">>}
CreateParents == {UNDEF, <<>>, NoSuchId} \cup Ids(nodes)
CreateTargets == {NoSuchId, CanonA} \cup Ids(nodes)
CreateEdgeInputs ==
    UNION {[1..k -> [to : CreateTargets, relation : Relations]] : k \in 0..MaxCreateEdges}

\* One create_concept call on a store of CreateStores, with its whole outcome
\* recorded: the computed id, the error thrown, the parent_id and the edges
\* list of the input.
CreateConceptCall(name, parent, summary, edgesIn) ==
    /\ last.op = "init"
    /\ LET r == createConcept(nodes, edges, name, parent, summary, edgesIn)
       IN /\ nodes' = r.nodes
          /\ edges' = r.edges
          /\ last' = Op("create_concept", r.id,
                        [error |-> r.error, parent_id |-> parent, edges |-> edgesIn], r.ok)
    /\ UNCHANGED <<file2, labels, merged, pc, obs, timeline, now, extractor, schema, held, files, lastKnown, sseClients, uuids, runs>>

InitCreate ==
    /\ \E st \in CreateStores : nodes = st.nodes /\ edges = st.edges
    /\ file2 = EmptyStore
    /\ labels = NoLabels
    /\ merged = FALSE
    /\ last = Op("init", NULLID, NULLID, TRUE)
    /\ pc = Idle
    /\ obs = NoObs
    /\ timeline = <<>>
    /\ now = 0
    /\ extractor = NoExtractor
    /\ schema = LatestSchema
    /\ held = <<>>
    /\ files = NoFiles
    /\ lastKnown = NoSnapshot
    /\ sseClients = <<>>
    /\ uuids = UUID_TABLE
    /\ runs = <<>>

NextCreate ==
    \E name \in CreateNames, parent \in CreateParents, edgesIn \in CreateEdgeInputs :
       CreateConceptCall(name, parent, "s2", edgesIn)

SpecCreate == InitCreate /\ [][NextCreate]_vars

\* ------------------------------------------------------------ makeId alone
\* makeId without a parent, applied to a name and then to its own result.
\* The names are the strings of at most MaxNameLen characters over an
\* uppercase letter, a lowercase letter, a digit, the characters that become
\* hyphens, the hyphen and a character that is stripped.
MaxNameLen == 4
NameChars == {"A", "a", "1", "_", " ", "-", "!"}
NameInputs == UNION {[1..k -> NameChars] : k \in 0..MaxNameLen}

MakeId ==
    /\ last.op = "name"
    /\ last' = Op("makeId", makeId(last.arg, UNDEF), last.arg, TRUE)
    /\ UNCHANGED <<nodes, edges, file2, labels, merged, pc, obs, timeline, now, extractor, schema, held, files, lastKnown, sseClients, uuids, runs>>

MakeIdAgain ==
    /\ last.op = "makeId"
    /\ last' = Op("makeId2", makeId(last.id, UNDEF), [name |-> last.arg, first |-> last.id], TRUE)
    /\ UNCHANGED <<nodes, edges, file2, labels, merged, pc, obs, timeline, now, extractor, schema, held, files, lastKnown, sseClients, uuids, runs>>

InitSlug ==
    /\ nodes = <<>>
    /\ edges = <<>>
    /\ file2 = EmptyStore
    /\ labels = NoLabels
    /\ merged = FALSE
    /\ \E name \in NameInputs : last = Op("name", NULLID, name, TRUE)
    /\ pc = Idle
    /\ obs = NoObs
    /\ timeline = <<>>
    /\ now = 0
    /\ extractor = NoExtractor
    /\ schema = LatestSchema
    /\ held = <<>>
    /\ files = NoFiles
    /\ lastKnown = NoSnapshot
    /\ sseClients = <<>>
    /\ uuids = UUID_TABLE
    /\ runs = <<>>

NextSlug == MakeId \/ MakeIdAgain

SpecSlug == InitSlug /\ [][NextSlug]_vars

\* ------------------------------------------ statement by statement, two processes
\* The MCP server and the explorer are two processes on one database file.
\* Each statement of the server commits on its own; the explorer polls with
\* two SELECTs; the server may stop between two statements.
StepNames == {<<"A">>, <<"B">>}

\* createConcept up to and including db.insertNode.
CreateBegin(name, summary, edgesIn) ==
    /\ pc = Idle
    /\ LET r == createConcept(nodes, edges, name, UNDEF, summary, <<>>)
       IN /\ nodes' = r.nodes
          /\ pc' = IF r.ok /\ edgesIn # <<>>
                   THEN [op |-> "create_concept", id |-> r.id, edges |-> edgesIn]
                   ELSE Idle
          /\ last' = IF r.ok THEN Op("create_concept", r.id, edgesIn, TRUE)
                     ELSE Failed("create_concept")
    /\ UNCHANGED <<edges, file2, labels, merged, obs, timeline, now, extractor, schema, held, files, lastKnown, sseClients, uuids, runs>>

\* One turn of the loop over input.edges.
CreateEdgeStep ==
    /\ pc.op = "create_concept"
    /\ edges' = createEdges(nodes, edges, pc.id, <<Head(pc.edges)>>)
    /\ pc' = IF Tail(pc.edges) = <<>> THEN Idle ELSE [pc EXCEPT !.edges = Tail(@)]
    /\ UNCHANGED <<nodes, file2, labels, merged, last, obs, timeline, now, extractor, schema, held, files, lastKnown, sseClients, uuids, runs>>

\* softDeleteNode: the UPDATE of the node.
SoftDeleteBegin(id, reason) ==
    /\ pc = Idle
    /\ LET changed == nodeExists(nodes, id)
       IN /\ nodes' = softDeleteNode(nodes, <<>>, id, reason).nodes
          /\ pc' = IF changed THEN [op |-> "soft_delete", id |-> id] ELSE Idle
          /\ last' = IF changed THEN Op("remove_concept", id, <<reason>>, TRUE)
                     ELSE Failed("remove_concept")
    /\ UNCHANGED <<edges, file2, labels, merged, obs, timeline, now, extractor, schema, held, files, lastKnown, sseClients, uuids, runs>>

\* softDeleteNode: the DELETE of the edges.
SoftDeleteEdges ==
    /\ pc.op = "soft_delete"
    /\ edges' = deleteEdgesForNode(edges, pc.id)
    /\ pc' = Idle
    /\ UNCHANGED <<nodes, file2, labels, merged, last, obs, timeline, now, extractor, schema, held, files, lastKnown, sseClients, uuids, runs>>

\* The server stops between two statements; what was committed stays.
Crash ==
    /\ pc # Idle
    /\ pc' = Idle
    /\ last' = Op("crash", pc.id, pc.op, FALSE)
    /\ UNCHANGED <<nodes, edges, file2, labels, merged, obs, timeline, now, extractor, schema, held, files, lastKnown, sseClients, uuids, runs>>

getAllActiveNodes(ns) == SelectSeq(ns, LAMBDA n : n.removed_at = NULL)

getAllEdges(ns, es) ==
    SelectSeq(es, LAMBDA e : nodeExists(ns, e.from_id) /\ nodeExists(ns, e.to_id))

\* detectChanges: const nodes = db.getAllActiveNodes()
ReadNodes ==
    /\ obs' = [phase |-> "nodes", nodeIds |-> Ids(getAllActiveNodes(nodes))]
    /\ UNCHANGED <<nodes, edges, file2, labels, merged, last, pc, timeline, now, extractor, schema, held, files, lastKnown, sseClients, uuids, runs>>

\* detectChanges: const edges = db.getAllEdges(), and the sets made of both
ReadEdges ==
    /\ obs.phase = "nodes"
    /\ obs' = [phase |-> "done", nodeIds |-> obs.nodeIds,
               edgeKeys |-> {<<e.from_id, e.to_id, e.relation>> : e \in Range(getAllEdges(nodes, edges))}]
    /\ UNCHANGED <<nodes, edges, file2, labels, merged, last, pc, timeline, now, extractor, schema, held, files, lastKnown, sseClients, uuids, runs>>

NextSteps ==
    \/ \E name \in StepNames, edgesIn \in CreateEdgeInputs : CreateBegin(name, "s1", edgesIn)
    \/ CreateEdgeStep
    \/ \E id \in IdInputs : SoftDeleteBegin(id, "r1")
    \/ SoftDeleteEdges
    \/ Crash
    \/ ReadNodes
    \/ ReadEdges

SpecSteps == Init /\ [][NextSteps]_vars

\* ------------------------------------------------------------------ claims
\* The ids reached from id by following parent_id at least once.
RECURSIVE AncestorsUpTo(_, _, _)
AncestorsUpTo(ns, id, k) ==
    IF k = 0 \/ ~idExists(ns, id) THEN {}
    ELSE LET p == getNodeIncludingRemoved(ns, id).parent_id
         IN IF p = NULLID THEN {} ELSE {p} \cup AncestorsUpTo(ns, p, k - 1)

Ancestors(ns, id) == AncestorsUpTo(ns, id, Len(ns))

EdgesTouching(es, id) == {e \in Range(es) : e.from_id = id \/ e.to_id = id}

\* C1: in every state reached by create_concept, link, update_concept,
\* remove_concept, hard_delete_node and rename_node_id from the empty store,
\* both endpoints of every stored edge are ids of live nodes.
C1_EdgesJoinLiveNodes ==
    \A e \in Range(edges) : nodeExists(nodes, e.from_id) /\ nodeExists(nodes, e.to_id)

\* A rename to a new id has just moved an edge of the renamed node along.
C1_Witness ==
    /\ last.op = "rename_node_id"
    /\ last.arg # last.id
    /\ \E e \in Range(edges) : e.from_id = last.arg \/ e.to_id = last.arg

\* C2: a soft delete of a live node id with reason r hides the node from
\* get_node, keeps the row with removed_reason = r, leaves no edge at id, and
\* keeps every other live node live.
C2_SoftDeletePost ==
    [][(last'.op = "remove_concept" /\ last'.ok) =>
          LET id == last'.id
              r == last'.arg[1]
          IN /\ nodeExists(nodes, id)
             /\ ~nodeExists(nodes', id)
             /\ idExists(nodes', id)
             /\ getNodeIncludingRemoved(nodes', id).removed_reason = r
             /\ EdgesTouching(edges', id) = {}
             /\ getOutgoingEdges(nodes', edges', id) = <<>>
             /\ getIncomingEdges(nodes', edges', id) = <<>>
             /\ LiveIds(nodes) \ {id} \subseteq LiveIds(nodes')]_vars

\* A node was removed with reason r2 while another node stays live and
\* still has an edge.
C2_Witness ==
    /\ last.op = "remove_concept"
    /\ last.ok
    /\ last.arg = <<"r2">>
    /\ LiveIds(nodes) # {}
    /\ edges # <<>>

\* C3: every live node's parent_id is null or the id of a live node (a soft
\* delete of the parent clears parent_id on its live children).
C3_LiveParentIsLive ==
    \A n \in Range(nodes) :
        n.removed_at = NULL => (n.parent_id = NULLID \/ nodeExists(nodes, n.parent_id))

\* C4: no node is reachable from itself by following parent_id.
C4_ParentAcyclic ==
    \A n \in Range(nodes) : n.id \notin Ancestors(nodes, n.id)

\* ------------------------------------------------------------ merge claims
\* Content identity of two node records: name, kind, summary, why (null as the
\* empty string), parent_id and removed state.
SameContent(l, r) ==
    /\ l.name = r.name /\ l.kind = r.kind /\ l.summary = r.summary
    /\ (IF l.why = NULL THEN "" ELSE l.why) = (IF r.why = NULL THEN "" ELSE r.why)
    /\ l.parent_id = r.parent_id
    /\ (l.removed_at = NULL) = (r.removed_at = NULL)

CanonIds(ns) == {stripMergeSuffix(n.id) : n \in Range(ns)}
IsVariant(n) == hasMergeSuffix(n.id) /\ n.needs_merge = 1
HasVariant(ns, c) == \E n \in Range(ns) : IsVariant(n) /\ stripMergeSuffix(n.id) = c
GroupsIn(ns, es) == ({n.merge_group : n \in Range(ns)} \cup {e.merge_group : e \in Range(es)}) \ {NULL}
LeftLabel == IF labels.leftLabel = UNDEF THEN LEFT ELSE labels.leftLabel
RightLabel == IF labels.rightLabel = UNDEF THEN RIGHT ELSE labels.rightLabel

\* The step is a merge of the working store (left) with file2 (right) that
\* succeeded.
MergeStep == ~merged /\ last'.op = "merge" /\ last'.ok

\* Canonical ids without a pre-existing variant on either input ...
PlainIds == {c \in CanonIds(nodes) \cup CanonIds(file2.nodes) :
                ~HasVariant(nodes, c) /\ ~HasVariant(file2.nodes, c)}
\* ... that both inputs hold with different content,
NewConflictIds ==
    {c \in PlainIds : /\ idExists(nodes, c) /\ idExists(file2.nodes, c)
                      /\ ~SameContent(getNodeIncludingRemoved(nodes, c),
                                      getNodeIncludingRemoved(file2.nodes, c))}
\* ... and that one input holds, or both with the same content.
CleanIds == PlainIds \ NewConflictIds
\* Canonical ids with a pre-existing variant on some input.
CarriedIds == (CanonIds(nodes) \cup CanonIds(file2.nodes)) \ PlainIds
\* The record of a clean id (the left one when both inputs hold it).
CleanRecord(c) ==
    IF idExists(nodes, c) THEN getNodeIncludingRemoved(nodes, c)
    ELSE getNodeIncludingRemoved(file2.nodes, c)

\* C5: a merge stores every newly conflicted id as exactly <id>::left and
\* <id>::right, both with needs_merge = 1, one fresh merge_group of their own
\* and the left and right label as source_branch, and concept_conflicts is
\* the number of these ids.
C5_ConflictVariants ==
    [][MergeStep =>
         /\ \A c \in NewConflictIds :
              LET out == SelectSeq(nodes', LAMBDA n : stripMergeSuffix(n.id) = c)
              IN /\ Len(out) = 2
                 /\ out[1].id = c \o MERGE_SUFFIX_LEFT
                 /\ out[2].id = c \o MERGE_SUFFIX_RIGHT
                 /\ out[1].needs_merge = 1 /\ out[2].needs_merge = 1
                 /\ out[1].merge_group = out[2].merge_group
                 /\ out[1].merge_group # NULL
                 /\ out[1].merge_group \notin GroupsIn(nodes, edges) \cup GroupsIn(file2.nodes, file2.edges)
                 /\ \A n \in Range(nodes') :
                       n.merge_group = out[1].merge_group => stripMergeSuffix(n.id) = c
                 /\ out[1].source_branch = LeftLabel
                 /\ out[2].source_branch = RightLabel
         /\ last'.arg.conceptConflicts = Cardinality(NewConflictIds)]_vars

\* A merge with custom labels has split one id of which the left input held a
\* soft-deleted record and the right input a live one.
C5_Witness ==
    /\ last.op = "merge" /\ last.ok
    /\ last.arg.conceptConflicts = 1
    /\ labels.leftLabel = <<"m">>
    /\ \E l \in Range(nodes), r \in Range(nodes) :
          /\ l.id = CanonA \o MERGE_SUFFIX_LEFT /\ r.id = CanonA \o MERGE_SUFFIX_RIGHT
          /\ l.merge_group = "u1" /\ r.merge_group = "u1"
          /\ l.removed_at # NULL /\ r.removed_at = NULL

\* C6 as written: every canonical id that only one input holds, or both with
\* content-identical records, is stored once under the unsuffixed id with the
\* merge flags unset; clean and removed_clean count the live and the
\* soft-deleted ones.
C6_CleanIds_Original ==
    [][MergeStep =>
         LET ids == {c \in CanonIds(nodes) \cup CanonIds(file2.nodes) :
                        \/ c \notin CanonIds(nodes)
                        \/ c \notin CanonIds(file2.nodes)
                        \/ /\ idExists(nodes, c) /\ idExists(file2.nodes, c)
                           /\ SameContent(getNodeIncludingRemoved(nodes, c),
                                          getNodeIncludingRemoved(file2.nodes, c))}
             out(c) == SelectSeq(nodes', LAMBDA n : stripMergeSuffix(n.id) = c)
         IN /\ \A c \in ids :
                 /\ Len(out(c)) = 1
                 /\ out(c)[1].id = c
                 /\ out(c)[1].needs_merge = 0 /\ out(c)[1].merge_group = NULL
            /\ last'.arg.clean = Cardinality({c \in ids : Len(out(c)) = 1 /\ out(c)[1].removed_at = NULL})
            /\ last'.arg.removedClean =
                  Cardinality({c \in ids : Len(out(c)) = 1 /\ out(c)[1].removed_at # NULL})]_vars

\* C6, amended: the same for the canonical ids of which neither input holds a
\* pre-existing conflict variant.
C6_CleanIds ==
    [][MergeStep =>
         /\ \A c \in CleanIds :
              LET out == SelectSeq(nodes', LAMBDA n : stripMergeSuffix(n.id) = c)
              IN /\ Len(out) = 1
                 /\ out[1].id = c
                 /\ out[1].needs_merge = 0 /\ out[1].merge_group = NULL
                 /\ out[1].source_branch = NULLID
                 /\ SameContent(out[1], CleanRecord(c))
         /\ last'.arg.clean =
               Cardinality({c \in CleanIds : CleanRecord(c).removed_at = NULL})
         /\ last'.arg.removedClean =
               Cardinality({c \in CleanIds : CleanRecord(c).removed_at # NULL})]_vars

\* A merge has kept one live and one soft-deleted id without a conflict.
C6_Witness ==
    /\ last.op = "merge" /\ last.ok
    /\ last.arg.clean = 1 /\ last.arg.removedClean = 1
    /\ \A n \in Range(nodes) : n.needs_merge = 0 /\ ~hasMergeSuffix(n.id)

\* C7: for every node n of an input, the output of a merge holds a node with
\* the canonical id of n and the content of n.
C7_NoConceptDropped ==
    [][MergeStep =>
         \A n \in Range(nodes) \cup Range(file2.nodes) :
            \E m \in Range(nodes') :
               stripMergeSuffix(m.id) = stripMergeSuffix(n.id) /\ SameContent(m, n)]_vars

\* An edge (from, to ++ suffix) with the relation and description of e.
StoredTo(es, e, suffix) ==
    \E o \in Range(es) : /\ o.from_id = e.from_id /\ o.to_id = e.to_id \o suffix
                         /\ o.relation = e.relation /\ o.description = e.description
\* The source of e is not conflicted and its target id is.
CleanToConflicted(e) ==
    /\ stripMergeSuffix(e.from_id) \in CleanIds
    /\ e.to_id \in NewConflictIds \cup CarriedIds
SameEdge(e, f) ==
    /\ e.from_id = f.from_id /\ e.to_id = f.to_id
    /\ e.relation = f.relation /\ e.description = f.description

\* C8 as written: the endpoints of every output edge are output nodes, and
\* an edge of the left (right) input from a clean node to a conflicted id is
\* stored with to_id = <target>::left (<target>::right).
C8_EdgeRemap_Original ==
    [][MergeStep =>
         /\ \A o \in Range(edges') : idExists(nodes', o.from_id) /\ idExists(nodes', o.to_id)
         /\ \A e \in Range(edges) : CleanToConflicted(e) => StoredTo(edges', e, MERGE_SUFFIX_LEFT)
         /\ \A e \in Range(file2.edges) :
               CleanToConflicted(e) => StoredTo(edges', e, MERGE_SUFFIX_RIGHT)]_vars

\* C8, amended: an edge of the right input is stored with <target>::right
\* unless the left input holds an edge with the same from_id, to_id, relation
\* and description, in which case only the left one is stored.
C8_EdgeRemap ==
    [][MergeStep =>
         /\ \A o \in Range(edges') : idExists(nodes', o.from_id) /\ idExists(nodes', o.to_id)
         /\ \A e \in Range(edges) : CleanToConflicted(e) => StoredTo(edges', e, MERGE_SUFFIX_LEFT)
         /\ \A e \in Range(file2.edges) :
               CleanToConflicted(e) =>
                  IF \E f \in Range(edges) : SameEdge(e, f)
                  THEN ~StoredTo(edges', e, MERGE_SUFFIX_RIGHT)
                  ELSE StoredTo(edges', e, MERGE_SUFFIX_RIGHT)]_vars

\* A merge has stored the edge of the right input from the clean a to the
\* newly conflicted b as a -> b::right.
C8_Witness ==
    /\ last.op = "merge" /\ last.ok
    /\ last.arg.conceptConflicts = 1
    /\ idExists(nodes, CanonA)
    /\ \E o \in Range(edges) : o.from_id = CanonA /\ o.to_id = CanonB \o MERGE_SUFFIX_RIGHT

\* C9: a merge carries every pre-existing variant of either input with its
\* id, content, merge_group, needs_merge and source_branch; it mints no group
\* and counts neither clean nor concept_conflicts for the id of a variant.
C9_VariantsCarried ==
    [][MergeStep =>
         /\ \A n \in Range(nodes) \cup Range(file2.nodes) :
               IsVariant(n) =>
                  \E m \in Range(nodes') :
                     /\ m.id = n.id /\ SameContent(m, n)
                     /\ m.merge_group = n.merge_group
                     /\ m.needs_merge = n.needs_merge
                     /\ m.source_branch = n.source_branch
         /\ Len(last'.arg.mergeGroups) = Cardinality(NewConflictIds)
         /\ last'.arg.conceptConflicts = Cardinality(NewConflictIds)
         /\ last'.arg.clean + last'.arg.removedClean = Cardinality(CleanIds)]_vars

\* The step is a resolve of group last'.arg[1] of canonical id last'.id that
\* completed.
ResolveStep(keep) == merged /\ last'.op = "resolve" /\ last'.ok /\ last'.arg[2] = keep
Renamed(id, old, new) == IF id = old THEN new ELSE id
Resolved(row, c) == [row EXCEPT !.id = c, !.merge_group = NULL, !.needs_merge = 0,
                                !.source_branch = NULLID]

\* What C10 says of one keep side and its suffix, with get_node as written
\* (strict) or with the two exceptions of the amended statement.
KeepPost(keep, suffix, strict) ==
    ResolveStep(keep) =>
       LET c == last'.id
           g == last'.arg[1]
           w == c \o suffix
           l == c \o (IF keep = "left" THEN MERGE_SUFFIX_RIGHT ELSE MERGE_SUFFIX_LEFT)
           former == getNodeIncludingRemoved(nodes, w)
       IN /\ idExists(nodes, w) /\ former.merge_group = g
          /\ idExists(nodes', c)
          /\ Resolved(getNodeIncludingRemoved(nodes', c), c) = Resolved(former, c)
          /\ getNodeIncludingRemoved(nodes', c).needs_merge = 0
          /\ getNodeIncludingRemoved(nodes', c).merge_group = NULL
          /\ IF strict THEN nodeExists(nodes', c)
             ELSE nodeExists(nodes', c) = (former.removed_at = NULL)
          /\ ~idExists(nodes', c \o MERGE_SUFFIX_LEFT)
          /\ ~idExists(nodes', c \o MERGE_SUFFIX_RIGHT)
          /\ g \notin GroupsIn(nodes', edges')
          /\ \A e \in Range(edges) :
                (/\ e.from_id = w \/ e.to_id = w
                 /\ strict \/ (e.from_id # l /\ e.to_id # l)) =>
                   \E o \in Range(edges') :
                      /\ o.from_id = Renamed(e.from_id, w, c)
                      /\ o.to_id = Renamed(e.to_id, w, c)
                      /\ o.relation = e.relation /\ o.description = e.description

\* C10 as written: after resolve keep left (right) of group g of id c,
\* get_node(c) returns the former ::left (::right) variant with the merge
\* flags cleared, neither variant id exists, nothing carries g, and every
\* edge that was incident to the winner references c.
C10_KeepOne_Original ==
    [][KeepPost("left", MERGE_SUFFIX_LEFT, TRUE) /\ KeepPost("right", MERGE_SUFFIX_RIGHT, TRUE)]_vars

\* C10, amended: the former variant is what get_node_including_removed(c)
\* returns, and get_node(c) returns it exactly when the variant was live; the
\* edges that joined the winner to the losing variant are deleted with it.
C10_KeepOne ==
    [][KeepPost("left", MERGE_SUFFIX_LEFT, FALSE) /\ KeepPost("right", MERGE_SUFFIX_RIGHT, FALSE)]_vars

\* A resolve with keep right has renamed a live ::right variant whose edge now
\* starts at the canonical id.
C10_Witness ==
    /\ last.op = "resolve" /\ last.ok
    /\ last.arg[2] = "right"
    /\ nodeExists(nodes, last.id)
    /\ \E e \in Range(edges) : e.from_id = last.id

\* ---------------------------------------------------------- further claims
\* The step is a resolve --keep both of group last'.arg[1] that got past the
\* argument checks, whether it completed or threw.
KeepBothStep ==
    merged /\ last'.op = "resolve" /\ last'.id # NULLID /\ last'.arg[2] = "both"

\* The id keep both gives a variant: <canonical>-<branch label>.
BothId(n) == stripMergeSuffix(n.id) \o <<"-">> \o n.source_branch

\* C11: resolve --keep both of a group that holds both variants of an id
\* stores them as two distinct nodes <canonical>-<left label> and
\* <canonical>-<right label> with needs_merge = 0, leaves no node or edge
\* with the group, and every edge of a variant references the renamed id.
C11_KeepBoth ==
    [][KeepBothStep =>
         LET g == last'.arg[1]
             c == last'.id
             l == getNodeIncludingRemoved(nodes, c \o MERGE_SUFFIX_LEFT)
             r == getNodeIncludingRemoved(nodes, c \o MERGE_SUFFIX_RIGHT)
             new(id) == IF id = l.id THEN BothId(l) ELSE IF id = r.id THEN BothId(r) ELSE id
         IN (/\ idExists(nodes, c \o MERGE_SUFFIX_LEFT) /\ l.merge_group = g
             /\ idExists(nodes, c \o MERGE_SUFFIX_RIGHT) /\ r.merge_group = g) =>
               /\ BothId(l) # BothId(r)
               /\ idExists(nodes', BothId(l)) /\ idExists(nodes', BothId(r))
               /\ getNodeIncludingRemoved(nodes', BothId(l)).needs_merge = 0
               /\ getNodeIncludingRemoved(nodes', BothId(r)).needs_merge = 0
               /\ SameContent(getNodeIncludingRemoved(nodes', BothId(l)), l)
               /\ SameContent(getNodeIncludingRemoved(nodes', BothId(r)), r)
               /\ ~idExists(nodes', l.id) /\ ~idExists(nodes', r.id)
               /\ g \notin GroupsIn(nodes', edges')
               /\ Len(edges') = Len(edges)
               /\ \A i \in 1..Len(edges) :
                     /\ edges'[i].from_id = new(edges[i].from_id)
                     /\ edges'[i].to_id = new(edges[i].to_id)
                     /\ edges'[i].relation = edges[i].relation]_vars

ResolveConflictStep == merged /\ last'.op = "resolve_conflict" /\ last'.ok

\* The rows of ns stored under the canonical id c or one of its variants.
RowsOf(ns, c) == {i \in 1..Len(ns) : stripMergeSuffix(ns[i].id) = c}

\* What C12 says of a group that holds both variants of its canonical id;
\* anyLive restricts it to the groups with a live variant.
ResolveConflictPost(anyLive) ==
    ResolveConflictStep =>
       LET c == last'.id
           g == last'.arg[1]
           l == getNodeIncludingRemoved(nodes, c \o MERGE_SUFFIX_LEFT)
           r == getNodeIncludingRemoved(nodes, c \o MERGE_SUFFIX_RIGHT)
           winner == IF (l.removed_at = NULL) # (r.removed_at = NULL) /\ l.removed_at # NULL
                     THEN r ELSE l
           loser == IF winner.id = l.id THEN r ELSE l
           kept == SelectSeq(edges, LAMBDA e : e.from_id # loser.id /\ e.to_id # loser.id)
           n == getNodeIncludingRemoved(nodes', c)
       IN (/\ idExists(nodes, c \o MERGE_SUFFIX_LEFT) /\ l.merge_group = g
           /\ idExists(nodes, c \o MERGE_SUFFIX_RIGHT) /\ r.merge_group = g
           /\ (anyLive => l.removed_at = NULL \/ r.removed_at = NULL)) =>
             /\ Cardinality(RowsOf(nodes', c)) = 1
             /\ idExists(nodes', c)
             /\ n.removed_at = NULL
             /\ n.summary = last'.arg[2].summary
             /\ n.merge_group = NULL /\ n.needs_merge = 0 /\ n.source_branch = NULLID
             /\ n.name = winner.name /\ n.kind = winner.kind /\ n.why = winner.why
             /\ n.parent_id = winner.parent_id
             /\ Len(edges') = Len(kept)
             /\ \A i \in 1..Len(kept) :
                   /\ edges'[i].from_id = Renamed(kept[i].from_id, winner.id, c)
                   /\ edges'[i].to_id = Renamed(kept[i].to_id, winner.id, c)
                   /\ edges'[i].relation = kept[i].relation
             /\ g \notin listConflicts(nodes')

RenameStep == ~merged /\ last'.op = "rename_node_id" /\ last'.ok

EdgeRowsTouching(es, id) == {i \in 1..Len(es) : es[i].from_id = id \/ es[i].to_id = id}

\* How many edges of es leave (out) or enter id with the other endpoint,
\* relation and description of triple.
CountTriple(es, id, out, triple) ==
    Cardinality({i \in 1..Len(es) :
                   /\ (IF out THEN es[i].from_id ELSE es[i].to_id) = id
                   /\ <<IF out THEN es[i].to_id ELSE es[i].from_id,
                        es[i].relation, es[i].description>> = triple})

\* C13: rename_node_id(old, new) with new not in use preserves the number of
\* edges incident to the node and, for each direction, the multiset of (other
\* endpoint, relation, description), the endpoint of a self-loop following the
\* rename; every node whose parent_id was old has parent_id = new; afterwards
\* no node id, parent_id, from_id or to_id equals old.
C13_RenamePreserves ==
    [][RenameStep =>
         LET old == last'.id
             new == last'.arg
         IN ~idExists(nodes, new) =>
              /\ Cardinality(EdgeRowsTouching(edges', new))
                   = Cardinality(EdgeRowsTouching(edges, old))
              /\ \A out \in BOOLEAN, i \in 1..Len(edges) :
                    LET triple == <<IF out THEN edges[i].to_id ELSE edges[i].from_id,
                                    edges[i].relation, edges[i].description>>
                    IN CountTriple(edges', new, out,
                                   <<Renamed(triple[1], old, new), triple[2], triple[3]>>)
                       = CountTriple(edges, old, out, triple)
              /\ Len(edges') = Len(edges)
              /\ Len(nodes') = Len(nodes)
              /\ \A i \in 1..Len(nodes) : nodes[i].parent_id = old => nodes'[i].parent_id = new
              /\ \A i \in 1..Len(nodes') : nodes'[i].id # old /\ nodes'[i].parent_id # old
              /\ \A i \in 1..Len(edges') : edges'[i].from_id # old /\ edges'[i].to_id # old]_vars

\* A node with a child, an incoming edge and a self-loop has been renamed.
C13_Witness ==
    /\ ~merged /\ last.op = "rename_node_id" /\ last.ok /\ last.id # last.arg
    /\ last.id # <<>>
    /\ \E i \in 1..Len(nodes) : nodes[i].parent_id = last.arg /\ nodes[i].id # last.arg
    /\ \E i \in 1..Len(edges) : edges[i].to_id = last.arg /\ edges[i].from_id # last.arg
    /\ \E i \in 1..Len(edges) : edges[i].to_id = last.arg /\ edges[i].from_id = last.arg

CreateStep == last.op = "init" /\ last'.op = "create_concept"

\* The errors that report an id already stored: the one createConcept throws
\* and the primary-key failure of the INSERT.
DuplicateErrors == {ERR_EXISTS, ERR_UNIQUE}

\* C14: create_concept whose computed id is the id of an existing node, live
\* or soft-deleted, fails with the Duplicate error and leaves nodes and edges
\* unchanged, so a soft-deleted row is neither revived nor overwritten.
C14_DuplicateFails ==
    [][CreateStep /\ idExists(nodes, last'.id) =>
         /\ ~last'.ok
         /\ last'.arg.error \in DuplicateErrors
         /\ nodes' = nodes /\ edges' = edges]_vars

\* s is one or more runs of lowercase letters and digits joined by single
\* hyphens: ^[a-z0-9]+(?:-[a-z0-9]+)*$
IsSlug(s) ==
    /\ s # <<>>
    /\ \A i \in 1..Len(s) : s[i] \in LowerAlnum \cup {"-"}
    /\ s[1] # "-" /\ s[Len(s)] # "-"
    /\ \A i \in 1..(Len(s) - 1) : ~(s[i] = "-" /\ s[i + 1] = "-")

\* The id pattern: slugs joined by "/".
RECURSIVE MatchesIdPattern(_)
MatchesIdPattern(id) ==
    IF \E i \in 1..Len(id) : id[i] = "/"
    THEN LET k == CHOOSE i \in 1..Len(id) : id[i] = "/" /\ \A j \in 1..(i - 1) : id[j] # "/"
         IN IsSlug(SubSeq(id, 1, k - 1)) /\ MatchesIdPattern(SubSeq(id, k + 1, Len(id)))
    ELSE IsSlug(id)

\* C15: create_concept never stores a node whose id fails the id pattern; a
\* name that slugifies to the empty string makes the call fail and insert
\* nothing.
C15_StoredIdMatchesPattern ==
    [][CreateStep =>
         /\ last'.ok => MatchesIdPattern(last'.id)
         /\ ~MatchesIdPattern(last'.id) => nodes' = nodes /\ edges' = edges]_vars

\* C16: create_concept, the one tool-layer operation that inserts nodes,
\* never inserts a node whose id ends in ::left or ::right, whatever the name
\* and the parent_id: the suffixed rows after a call were there before it.
C16_NoReservedSuffix ==
    [][CreateStep =>
         /\ last'.ok => ~hasMergeSuffix(last'.id)
         /\ \A i \in 1..Len(nodes') :
               hasMergeSuffix(nodes'[i].id) => idExists(nodes, nodes'[i].id)]_vars

\* A concept named "a::left" has been created, and so has one under the
\* parent a::left of a merged store.
C16_Witness ==
    /\ last.op = "create_concept" /\ last.ok
    /\ \/ last.id = <<"a", "-", "l", "e", "f", "t">>
       \/ /\ last.arg.parent_id = CanonA \o MERGE_SUFFIX_LEFT
          /\ idExists(nodes, last.arg.parent_id \o <<"/", "l", "e", "f", "t">>)

\* C17: slugify is idempotent, slugify(slugify(x)) = slugify(x) for every
\* name x, and slugify(x) without a parent is the empty string or runs of
\* lowercase letters and digits separated by single hyphens, with no leading
\* or trailing hyphen.
C17_SlugifyIdempotent ==
    /\ last.op = "makeId2" => last.id = last.arg.first
    /\ last.op \in {"makeId", "makeId2"} => last.id = <<>> \/ IsSlug(last.id)

\* The name "-A 1" has been slugified twice, to "a-1".
C17_Witness ==
    /\ last.op = "makeId2"
    /\ last.arg.name = <<"-", "A", " ", "1">>
    /\ last.id = <<"a", "-", "1">>

IsLive(ns, id) == \E i \in 1..Len(ns) : ns[i].id = id /\ ns[i].removed_at = NULL

\* C18: a create_concept that succeeds appends the node, live, and after it
\* exactly one edge, in order, for each entry of its edges list whose target
\* is a live node of the store that now holds the new node; an entry whose
\* target is missing or soft-deleted adds no edge and does not stop the call.
C18_EdgesToLiveTargets ==
    [][CreateStep /\ last'.ok =>
         LET id == last'.id
             live == SelectSeq(last'.arg.edges, LAMBDA e : IsLive(nodes', e.to))
         IN /\ Len(nodes') = Len(nodes) + 1
            /\ SubSeq(nodes', 1, Len(nodes)) = nodes
            /\ nodes'[Len(nodes')].id = id /\ nodes'[Len(nodes')].removed_at = NULL
            /\ Len(edges') = Len(edges) + Len(live)
            /\ SubSeq(edges', 1, Len(edges)) = edges
            /\ \A k \in 1..Len(live) :
                  /\ edges'[Len(edges) + k].from_id = id
                  /\ edges'[Len(edges) + k].to_id = live[k].to
                  /\ edges'[Len(edges) + k].relation = live[k].relation]_vars

\* A concept has been created with two entries, one to a soft-deleted or
\* missing target and one to a live node other than itself, and holds the
\* one edge.
C18_Witness ==
    /\ last.op = "create_concept" /\ last.ok /\ MatchesIdPattern(last.id)
    /\ Len(last.arg.edges) = 2
    /\ idExists(nodes, last.arg.edges[1].to) /\ ~IsLive(nodes, last.arg.edges[1].to)
    /\ IsLive(nodes, last.arg.edges[2].to) /\ last.arg.edges[2].to # last.id
    /\ Cardinality({i \in 1..Len(edges) : edges[i].from_id = last.id}) = 1

\* C19: a poll of the explorer that sees the concept the last create_concept
\* created also sees every edge that call declared to a live target.
C19_ReaderSeesWholeCreate ==
    (obs.phase = "done" /\ last.op = "create_concept" /\ last.ok /\ last.id \in obs.nodeIds) =>
       \A k \in 1..Len(last.arg) :
          (IsLive(nodes, last.arg[k].to) /\ last.arg[k].to \in obs.nodeIds) =>
             <<last.id, last.arg[k].to, last.arg[k].relation>> \in obs.edgeKeys

\* C20: soft_delete_node is all-or-nothing: whenever no call is in progress,
\* also after the server stopped in the middle of one, no soft-deleted node
\* has stored edges or children pointing at it.
C20_SoftDeleteAllOrNothing ==
    pc = Idle =>
       \A i \in 1..Len(nodes) :
          nodes[i].removed_at # NULL =>
             /\ EdgeRowsTouching(edges, nodes[i].id) = {}
             /\ \A j \in 1..Len(nodes) : nodes[j].parent_id # nodes[i].id

\* ------------------------------------------------------------------------
\* The explorer's tick route, alone: sampleEntries over a timeline.
MaxTimeline == 5
MaxTicks == 5
TickTools == {"understand", "create_concept"}

\* A row of table timeline as the explorer shows it.
TimelineEntry(seq, tool) == [seq |-> seq, tool |-> tool]

\* Math.round of the non-negative quotient num / den: halves go up.
Round(num, den) == (2 * num + den) \div (2 * den)

\* The loop of sampleEntries from index i on; seen is the set of indices taken.
RECURSIVE sampleLoop(_, _, _, _, _)
sampleLoop(entries, n, i, seen, sampled) ==
    IF i >= n THEN sampled
    ELSE LET maxIndex == Len(entries) - 1
             index == IF i = n - 1 THEN maxIndex ELSE Round(i * maxIndex, n - 1)
         IN IF index \in seen THEN sampleLoop(entries, n, i + 1, seen, sampled)
            ELSE sampleLoop(entries, n, i + 1, seen \cup {index},
                            Append(sampled, entries[index + 1]))

sampleEntries(entries, n) ==
    IF Len(entries) <= n THEN entries
    ELSE IF n <= 1 THEN <<entries[1]>>
    ELSE sampleLoop(entries, n, 0, {}, <<>>)

\* The merged timeline numbers its entries 1, 2, ... in order.
RECURSIVE TimelinesOfLen(_)
TimelinesOfLen(len) ==
    IF len = 0 THEN {<<>>}
    ELSE {Append(t, TimelineEntry(len, tool)) : t \in TimelinesOfLen(len - 1), tool \in TickTools}
TimelineInputs == UNION {TimelinesOfLen(len) : len \in 1..MaxTimeline}

\* GET /api/timeline/ticks?n=...
GetTicks(n) ==
    /\ last.op = "init"
    /\ last' = Op("ticks", NULLID, [n |-> n, ticks |-> sampleEntries(timeline, n)], TRUE)
    /\ UNCHANGED <<nodes, edges, file2, labels, merged, pc, obs, timeline, now, extractor, schema, held, files, lastKnown, sseClients, uuids, runs>>

InitTicks ==
    /\ nodes = <<>>
    /\ edges = <<>>
    /\ file2 = EmptyStore
    /\ labels = NoLabels
    /\ merged = FALSE
    /\ last = Op("init", NULLID, NULLID, TRUE)
    /\ pc = Idle
    /\ obs = NoObs
    /\ timeline \in TimelineInputs
    /\ now = 0
    /\ extractor = NoExtractor
    /\ schema = LatestSchema
    /\ held = <<>>
    /\ files = NoFiles
    /\ lastKnown = NoSnapshot
    /\ sseClients = <<>>
    /\ uuids = UUID_TABLE
    /\ runs = <<>>

NextTicks == \E n \in 1..MaxTicks : GetTicks(n)

SpecTicks == InitTicks /\ [][NextTicks]_vars

Max(a, b) == IF a >= b THEN a ELSE b

\* C26: for every n >= 1 and every timeline of length L >= 1 the tick sample
\* has no entry twice, is in strictly increasing seq order, contains the first
\* and the last entry of the timeline, has at most max(n, 2) entries, and is
\* the whole timeline when L <= n.
C26_TickSample ==
    last.op = "ticks" =>
        LET ticks == last.arg.ticks
            n == last.arg.n
        IN /\ \A i, j \in 1..Len(ticks) : i < j => ticks[i].seq < ticks[j].seq
           /\ Len(ticks) >= 1
           /\ ticks[1] = timeline[1]
           /\ ticks[Len(ticks)] = timeline[Len(timeline)]
           /\ Len(ticks) <= Max(n, 2)
           /\ (Len(timeline) <= n => ticks = timeline)

\* ------------------------------------------------------------------------
\* The read-only tools over the working store.

\* SELECT ... WHERE removed_at IS NULL AND embedding IS NOT NULL.  Every row of
\* these stores has an embedding: createConcept stores one with the row and
\* the merge copies the column.
getAllActiveNodesWithEmbeddings(ns) == SelectSeq(ns, LAMBDA n : n.removed_at = NULL)

\* understand with top_k no smaller than the number of candidates: every
\* candidate is a match, and a match is returned when getNode finds a live row.
understand(ns) ==
    SelectSeq(getAllActiveNodesWithEmbeddings(ns), LAMBDA m : nodeExists(ns, m.id))

\* list_roots: every live root with its live children.
listRoots(ns) ==
    MapSeq(getRootNodes(ns), LAMBDA root : [id |-> root.id, children |-> getChildren(ns, root.id)])

\* The ids that appear in the answers of understand and list_roots.
AnswerIds(ns) ==
    {m.id : m \in Range(understand(ns))}
    \cup {r.id : r \in Range(listRoots(ns))}
    \cup UNION {{c.id : c \in Range(r.children)} : r \in Range(listRoots(ns))}

\* C23: the results of understand and list_roots never contain a node with
\* needs_merge = true (a conflict variant, id ending in ::left / ::right).
C23_NoVariantInAnswers ==
    \A i \in 1..Len(nodes) :
        nodes[i].id \in AnswerIds(nodes) => nodes[i].needs_merge = 0 /\ ~hasMergeSuffix(nodes[i].id)

\* ------------------------------------------------------------------------
\* update_concept call by call, on rows that carry their timestamps and their
\* embedding.
MaxClock == 2
KindInputs == {"module", "feature"}

RECURSIVE Join(_)
Join(chars) == IF chars = <<>> THEN "" ELSE Head(chars) \o Join(Tail(chars))

\* `${kind}: ${name} -- ${summary}` (the source writes an em dash).
embeddingText(name, kind, summary) == kind \o ": " \o Join(name) \o " -- " \o summary

\* The model's vector for a text: equal texts give equal vectors, and the
\* vector names the text it was computed from.
embed(text) == "vec(" \o text \o ")"

\* The columns created_at, updated_at (DEFAULT datetime('now')) and embedding
\* of a row inserted at time t.  removed_at of a row says whether the column
\* is NULL; removed_at_time is the second stored in it when it is not.
Stamped(row, t, embedding) ==
    row @@ [created_at |-> t, updated_at |-> t, embedding |-> embedding, removed_at_time |-> 0]

\* The column created_at of an edge inserted at time t.
StampedEdge(row, t) == row @@ [created_at |-> t]

\* KnowledgeDB.softDeleteNode at time t: removed_at and updated_at are set to
\* datetime('now').
softDeleteNodeAt(ns, es, id, reason, t) ==
    LET r == softDeleteNode(ns, es, id, reason)
    IN [r EXCEPT !.nodes = MapSeq(r.nodes, LAMBDA n :
            IF r.changed /\ n.id = id
            THEN [n EXCEPT !.removed_at_time = t, !.updated_at = t] ELSE n)]

\* tools.ts link at time t.
linkAt(ns, es, from, to, relation, t) ==
    IF nodeExists(ns, from) /\ nodeExists(ns, to)
    THEN [edges |-> Append(es, StampedEdge(EdgeRow(from, to, relation), t)), ok |-> TRUE]
    ELSE [edges |-> es, ok |-> FALSE]

\* createConcept with the embedding it stores, at time t.
createConceptAt(ns, es, name, summary, t) ==
    LET r == createConcept(ns, es, name, UNDEF, summary, <<>>)
    IN IF ~r.ok THEN r
       ELSE [r EXCEPT !.nodes = Append(ns, Stamped(r.nodes[Len(r.nodes)], t,
                                         embed(embeddingText(name, "module", summary))))]

\* A changes object of update_concept with the embedding updateConcept adds.
updateFields(ns, id, changes, embedding, t) ==
    MapSeq(ns, LAMBDA n : IF n.id # id \/ n.removed_at # NULL THEN n ELSE
        [n EXCEPT !.name = IF changes.name # UNDEF THEN changes.name ELSE @,
                  !.kind = IF changes.kind # UNDEFINED THEN changes.kind ELSE @,
                  !.summary = IF changes.summary # UNDEFINED THEN changes.summary ELSE @,
                  !.why = IF changes.why # UNDEFINED THEN changes.why ELSE @,
                  !.embedding = IF embedding # UNDEFINED THEN embedding ELSE @,
                  !.updated_at = t])

\* KnowledgeDB.updateNode with its embedding field and its updated_at, at time
\* t: FALSE when no field was supplied or no live row has the id.
updateNodeAt(ns, id, changes, embedding, t) ==
    IF changes = NoChange /\ embedding = UNDEFINED THEN [nodes |-> ns, changed |-> FALSE]
    ELSE [nodes |-> updateFields(ns, id, changes, embedding, t),
          changed |-> nodeExists(ns, id)]

MSG_NO_CHANGES == "No changes applied"
MSG_UPDATED == "Updated concept"
ERR_NOT_FOUND == "not found"

\* x ?? y on a name and on a text field of the changes object.
OrElseId(x, y) == IF x # UNDEF THEN x ELSE y
OrElse(x, y) == IF x # UNDEFINED THEN x ELSE y

\* tools.ts updateConcept at time t.
updateConcept(ns, id, changes, t) ==
    IF ~nodeExists(ns, id) THEN [nodes |-> ns, ok |-> FALSE, message |-> ERR_NOT_FOUND]
    ELSE LET existing == CHOOSE n \in Range(ns) : n.id = id /\ n.removed_at = NULL
             embedding ==
                 IF changes.summary # UNDEFINED \/ changes.name # UNDEF
                 THEN embed(embeddingText(OrElseId(changes.name, existing.name),
                                          OrElse(changes.kind, existing.kind),
                                          OrElse(changes.summary, existing.summary)))
                 ELSE UNDEFINED
             u == updateNodeAt(ns, id, changes, embedding, t)
         IN [nodes |-> u.nodes, ok |-> TRUE,
             message |-> IF u.changed THEN MSG_UPDATED ELSE MSG_NO_CHANGES]

UpdateInputs ==
    {NoChange}
    \cup {[NoChange EXCEPT !.name = n] : n \in StepNames}
    \cup {[NoChange EXCEPT !.kind = k] : k \in KindInputs}
    \cup {[NoChange EXCEPT !.summary = s] : s \in Summaries}
    \cup {[NoChange EXCEPT !.why = "w"]}
    \cup {[NoChange EXCEPT !.kind = k, !.summary = s] : k \in KindInputs, s \in Summaries}

CreateConceptAt(name, summary) ==
    /\ LET r == createConceptAt(nodes, edges, name, summary, now)
       IN /\ nodes' = r.nodes
          /\ last' = Op("create_concept", r.id, NULLID, r.ok)
    /\ UNCHANGED <<edges, file2, labels, merged, pc, obs, timeline, now, extractor, schema, held, files, lastKnown, sseClients, uuids, runs>>

\* last keeps the row as it was before the call and as it is after it.
UpdateConceptCall(id, changes) ==
    /\ LET r == updateConcept(nodes, id, changes, now)
           row(ns) == IF idExists(ns, id) THEN getNodeIncludingRemoved(ns, id) ELSE NoChange
       IN /\ nodes' = r.nodes
          /\ last' = Op("update_concept", id,
                        [changes |-> changes, message |-> r.message,
                         before |-> row(nodes), after |-> row(r.nodes)], r.ok)
    /\ UNCHANGED <<edges, file2, labels, merged, pc, obs, timeline, now, extractor, schema, held, files, lastKnown, sseClients, uuids, runs>>

RemoveConceptAt(id, reason) ==
    /\ LET r == softDeleteNodeAt(nodes, edges, id, reason, now)
       IN /\ nodes' = r.nodes
          /\ edges' = r.edges
          /\ last' = Op("remove_concept", id, NULLID, r.changed)
    /\ UNCHANGED <<file2, labels, merged, pc, obs, timeline, now, extractor, schema, held, files, lastKnown, sseClients, uuids, runs>>

\* A second passes.
Tick ==
    /\ now < MaxClock
    /\ now' = now + 1
    /\ UNCHANGED <<nodes, edges, file2, labels, merged, last, pc, obs, timeline, extractor, schema, held, files, lastKnown, sseClients, uuids, runs>>

NextUpdate ==
    \/ \E summary \in Summaries : CreateConceptAt(<<"A">>, summary)
    \/ \E id \in IdInputs, changes \in UpdateInputs : UpdateConceptCall(id, changes)
    \/ \E id \in IdInputs : RemoveConceptAt(id, "r1")
    \/ Tick

SpecUpdate == Init /\ [][NextUpdate]_vars

\* The changes object leaves every field of the row as it is.
LeavesEqual(row, changes) ==
    /\ changes.name \in {UNDEF, row.name}
    /\ changes.kind \in {UNDEFINED, row.kind}
    /\ changes.summary \in {UNDEFINED, row.summary}
    /\ changes.why \in {UNDEFINED, row.why}

\* C21: an update_concept whose changes leave every field of the node equal
\* to its current value (the empty changes object included) returns the
\* no-changes message and leaves updated_at and every other column unchanged.
C21_EqualChangesAreNoOp ==
    (last.op = "update_concept" /\ last.ok /\ LeavesEqual(last.arg.before, last.arg.changes)) =>
        /\ last.arg.message = MSG_NO_CHANGES
        /\ last.arg.after = last.arg.before

\* The embedding of the row's current name, kind and summary.
EmbeddingOf(row) == embed(embeddingText(row.name, row.kind, row.summary))

\* C22: after a successful update_concept whose changes include name, kind or
\* summary the stored embedding is the embedding of the post-patch values; so
\* every live node written through create_concept and update_concept has an
\* embedding that matches its name, kind and summary, also after a change of
\* kind alone.
C22_EmbeddingIsCurrent ==
    /\ (/\ last.op = "update_concept"
        /\ last.ok
        /\ \/ last.arg.changes.name # UNDEF
           \/ last.arg.changes.kind # UNDEFINED
           \/ last.arg.changes.summary # UNDEFINED)
       => last.arg.after.embedding = EmbeddingOf(last.arg.after)
    /\ \A i \in 1..Len(nodes) :
           nodes[i].removed_at = NULL => nodes[i].embedding = EmbeddingOf(nodes[i])

\* ------------------------------------------------------------------------
\* The embedding provider under overlapping embed calls.  A call is suspended
\* at each await; pc maps every caller to the await it is suspended at.
MaxCallers == 3
MaxLoads == 3
Callers == 1..MaxCallers
AllIdle == [c \in Callers |-> "idle"]

\* embed -> getExtractor up to its await: with no extractor stored the caller
\* starts pipeline(...), otherwise it goes on with the stored one.
EmbedBegin(c) ==
    /\ pc[c] = "idle"
    /\ IF extractor.model = NULL
       THEN /\ extractor.loads < MaxLoads
            /\ extractor' = [extractor EXCEPT !.loads = @ + 1]
            /\ pc' = [pc EXCEPT ![c] = "loading"]
       ELSE /\ pc' = [pc EXCEPT ![c] = "ready"]
            /\ UNCHANGED extractor
    /\ last' = Op("embed", NULLID, c, TRUE)
    /\ UNCHANGED <<nodes, edges, file2, labels, merged, obs, timeline, now, schema, held, files, lastKnown, sseClients, uuids, runs>>

\* pipeline(...) resolves: `extractor = await pipeline(...)` stores the model
\* this caller loaded.
LoadDone(c) ==
    /\ pc[c] = "loading"
    /\ extractor' = [extractor EXCEPT !.model = "model"]
    /\ pc' = [pc EXCEPT ![c] = "ready"]
    /\ last' = Op("loaded", NULLID, c, TRUE)
    /\ UNCHANGED <<nodes, edges, file2, labels, merged, obs, timeline, now, schema, held, files, lastKnown, sseClients, uuids, runs>>

\* pipeline(...) rejects: getExtractor and embed throw, nothing is stored.
LoadFail(c) ==
    /\ pc[c] = "loading"
    /\ pc' = [pc EXCEPT ![c] = "idle"]
    /\ last' = Op("load failed", NULLID, c, FALSE)
    /\ UNCHANGED <<nodes, edges, file2, labels, merged, obs, timeline, now, extractor, schema, held, files, lastKnown, sseClients, uuids, runs>>

\* `await ext(text, ...)` resolves and embed returns the vector.
EmbedDone(c) ==
    /\ pc[c] = "ready"
    /\ pc' = [pc EXCEPT ![c] = "idle"]
    /\ last' = Op("embedded", NULLID, c, TRUE)
    /\ UNCHANGED <<nodes, edges, file2, labels, merged, obs, timeline, now, extractor, schema, held, files, lastKnown, sseClients, uuids, runs>>

InitEmbed ==
    /\ nodes = <<>>
    /\ edges = <<>>
    /\ file2 = EmptyStore
    /\ labels = NoLabels
    /\ merged = FALSE
    /\ last = Op("init", NULLID, NULLID, TRUE)
    /\ pc = AllIdle
    /\ obs = NoObs
    /\ timeline = <<>>
    /\ now = 0
    /\ extractor = NoExtractor
    /\ schema = LatestSchema
    /\ held = <<>>
    /\ files = NoFiles
    /\ lastKnown = NoSnapshot
    /\ sseClients = <<>>
    /\ uuids = UUID_TABLE
    /\ runs = <<>>

NextEmbed ==
    \E c \in Callers : EmbedBegin(c) \/ LoadDone(c) \/ LoadFail(c) \/ EmbedDone(c)

SpecEmbed == InitEmbed /\ [][NextEmbed]_vars

Loading == {c \in Callers : pc[c] = "loading"}

\* C29: the embedding model is initialised at most once per process: of
\* overlapping embed calls only the first starts the model load and the others
\* wait for it (never two loads in progress, no load started once the model is
\* stored); a failed initialisation leaves the provider uninitialised, so that
\* a later call retries.
C29_SingleInitialisation ==
    [][/\ Cardinality(Loading') <= 1
       /\ (extractor'.loads > extractor.loads => extractor.model = NULL /\ Loading = {})
       /\ (Loading' \subseteq Loading /\ Loading' # Loading /\ last'.op = "load failed"
              => extractor'.model = extractor.model)]_vars

\* ------------------------------------------------------------------------
\* Opening a database file: the constructor's migrate(), statement by
\* statement.  Every statement of a db.exec script commits on its own; the
\* process can stop between any two of them.
MergeColsSeq == <<"merge_group", "needs_merge", "source_branch", "merge_timestamp">>

\* Database files as earlier releases left them: no tables (new file), the
\* tables of version 1 without merge metadata, version 2, and the latest.
SchemaInputs ==
    {SchemaOf(0, {}, {}, FALSE),
     SchemaOf(1, BaseNodeCols, BaseEdgeCols, FALSE),
     SchemaOf(2, BaseNodeCols \cup MergeCols, BaseEdgeCols \cup MergeCols, FALSE),
     LatestSchema}

At(version, at, k) == [op |-> "migrate", version |-> version, at |-> at, k |-> k]

\* new KnowledgeDB(path): migrate reads user_version once.
Open ==
    /\ pc = Idle
    /\ pc' = At(schema.user_version, "v1_nodes", 0)
    /\ last' = Op("opening", NULLID, schema.user_version, TRUE)
    /\ UNCHANGED <<nodes, edges, file2, labels, merged, obs, timeline, now, extractor, schema, held, files, lastKnown, sseClients, uuids, runs>>

\* version < 1: CREATE TABLE IF NOT EXISTS nodes (...), with the merge columns.
V1CreateNodes ==
    /\ pc.op = "migrate" /\ pc.at = "v1_nodes"
    /\ schema' = IF pc.version < 1 /\ schema.nodes = {}
                 THEN [schema EXCEPT !.nodes = BaseNodeCols \cup MergeCols] ELSE schema
    /\ pc' = [pc EXCEPT !.at = "v1_edges"]
    /\ UNCHANGED <<nodes, edges, file2, labels, merged, last, obs, timeline, now, extractor, held, files, lastKnown, sseClients, uuids, runs>>

\* version < 1: CREATE TABLE IF NOT EXISTS edges (...), with the merge columns.
V1CreateEdges ==
    /\ pc.op = "migrate" /\ pc.at = "v1_edges"
    /\ schema' = IF pc.version < 1 /\ schema.edges = {}
                 THEN [schema EXCEPT !.edges = BaseEdgeCols \cup MergeCols] ELSE schema
    /\ pc' = [pc EXCEPT !.at = "v2_nodes"]
    /\ UNCHANGED <<nodes, edges, file2, labels, merged, last, obs, timeline, now, extractor, held, files, lastKnown, sseClients, uuids, runs>>

\* version < 2: PRAGMA table_info(table); the ALTER script runs only when the
\* table has no column merge_group.
V2Check(table) ==
    /\ pc.op = "migrate" /\ pc.at = "v2_" \o table
    /\ pc' = IF pc.version < 2 /\ "merge_group" \notin schema[table]
             THEN [pc EXCEPT !.at = "alter_" \o table, !.k = 1]
             ELSE [pc EXCEPT !.at = IF table = "nodes" THEN "v2_edges" ELSE "v3"]
    /\ UNCHANGED <<nodes, edges, file2, labels, merged, last, obs, timeline, now, extractor, schema, held, files, lastKnown, sseClients, uuids, runs>>

\* One ALTER TABLE ... ADD COLUMN of the script.  SQLite refuses a column the
\* table already has, and a table that does not exist: the constructor throws.
V2Alter(table) ==
    /\ pc.op = "migrate" /\ pc.at = "alter_" \o table
    /\ LET col == MergeColsSeq[pc.k]
       IN IF col \in schema[table] \/ schema[table] = {}
          THEN /\ pc' = Idle
               /\ last' = Op("open", NULLID, pc.version, FALSE)
               /\ UNCHANGED schema
          ELSE /\ schema' = [schema EXCEPT ![table] = @ \cup {col}]
               /\ pc' = IF pc.k < Len(MergeColsSeq) THEN [pc EXCEPT !.k = @ + 1]
                        ELSE [pc EXCEPT !.at = IF table = "nodes" THEN "v2_edges" ELSE "v3", !.k = 0]
               /\ UNCHANGED last
    /\ UNCHANGED <<nodes, edges, file2, labels, merged, obs, timeline, now, extractor, held, files, lastKnown, sseClients, uuids, runs>>

\* version < 3: the timeline table is added, in one transaction.
V3CreateTimeline ==
    /\ pc.op = "migrate" /\ pc.at = "v3"
    /\ schema' = IF pc.version < 3 THEN [schema EXCEPT !.timeline = TRUE] ELSE schema
    /\ pc' = [pc EXCEPT !.at = "set_version"]
    /\ UNCHANGED <<nodes, edges, file2, labels, merged, last, obs, timeline, now, extractor, held, files, lastKnown, sseClients, uuids, runs>>

\* if (version < SCHEMA_VERSION) PRAGMA user_version = SCHEMA_VERSION; the
\* constructor returns.
SetUserVersion ==
    /\ pc.op = "migrate" /\ pc.at = "set_version"
    /\ schema' = IF pc.version < SCHEMA_VERSION
                 THEN [schema EXCEPT !.user_version = SCHEMA_VERSION] ELSE schema
    /\ pc' = Idle
    /\ last' = Op("open", NULLID, pc.version, TRUE)
    /\ UNCHANGED <<nodes, edges, file2, labels, merged, obs, timeline, now, extractor, held, files, lastKnown, sseClients, uuids, runs>>

\* The process stops during opening; what was committed stays in the file.
CrashOpen ==
    /\ pc.op = "migrate"
    /\ pc' = Idle
    /\ last' = Op("crash", NULLID, pc.version, FALSE)
    /\ UNCHANGED <<nodes, edges, file2, labels, merged, obs, timeline, now, extractor, schema, held, files, lastKnown, sseClients, uuids, runs>>

InitMigrate ==
    /\ nodes = <<>>
    /\ edges = <<>>
    /\ file2 = EmptyStore
    /\ labels = NoLabels
    /\ merged = FALSE
    /\ last = Op("init", NULLID, NULLID, TRUE)
    /\ pc = Idle
    /\ obs = NoObs
    /\ timeline = <<>>
    /\ now = 0
    /\ extractor = NoExtractor
    /\ schema \in SchemaInputs
    /\ held = <<>>
    /\ files = NoFiles
    /\ lastKnown = NoSnapshot
    /\ sseClients = <<>>
    /\ uuids = UUID_TABLE
    /\ runs = <<>>

NextMigrate ==
    \/ Open
    \/ V1CreateNodes
    \/ V1CreateEdges
    \/ \E table \in {"nodes", "edges"} : V2Check(table)
    \/ \E table \in {"nodes", "edges"} : V2Alter(table)
    \/ V3CreateTimeline
    \/ SetUserVersion
    \/ CrashOpen

SpecMigrate == InitMigrate /\ [][NextMigrate]_vars

\* C30: opening a store of schema version 0..3 ends with user_version 3 and
\* the complete latest schema, also when earlier attempts to open it were cut
\* short by a crash; opening never lowers user_version.
C30_OpenReachesLatestSchema ==
    [][/\ (pc.op = "migrate" /\ pc' = Idle /\ last'.op = "open" => last'.ok /\ schema' = LatestSchema)
       /\ schema'.user_version >= schema.user_version]_vars

\* ------------------------------------------------------------------------
\* Time travel: the graph as of a past second, read from the current rows.

\* get_nodes_at_time(t): created_at <= t and removed_at NULL or > t.
getNodesAtTime(ns, t) ==
    SelectSeq(ns, LAMBDA n : n.created_at <= t /\ (n.removed_at = NULL \/ n.removed_at_time > t))

\* get_edges_at_time without the rule on the endpoints.
getEdgesAtTime_AnyEndpoint(ns, es, t) ==
    SelectSeq(es, LAMBDA e : e.created_at <= t)

\* get_edges_at_time(t): created_at <= t and both endpoints satisfy the node
\* rule at t.
getEdgesAtTime(ns, es, t) ==
    SelectSeq(es, LAMBDA e : /\ e.created_at <= t
                             /\ e.from_id \in Ids(getNodesAtTime(ns, t))
                             /\ e.to_id \in Ids(getNodesAtTime(ns, t)))

EdgeTriples(es) == {<<e.from_id, e.to_id, e.relation>> : e \in Range(es)}

LinkAt(from, to, relation) ==
    /\ Len(edges) < MaxEdges
    /\ LET r == linkAt(nodes, edges, from, to, relation, now)
       IN /\ edges' = r.edges
          /\ last' = Op("link", from, to, r.ok)
    /\ UNCHANGED <<nodes, file2, labels, merged, pc, obs, timeline, now, extractor, schema, held, files, lastKnown, sseClients, uuids, runs>>

\* A second passes; held keeps what the store held at its end.
TickHeld ==
    /\ now < MaxClock
    /\ now' = now + 1
    /\ held' = Append(held, [nodes |-> LiveIds(nodes), edges |-> EdgeTriples(edges)])
    /\ UNCHANGED <<nodes, edges, file2, labels, merged, last, pc, obs, timeline, extractor, schema, files, lastKnown, sseClients, uuids, runs>>

NextTravel ==
    \/ \E name \in StepNames : CreateConceptAt(name, "s1")
    \/ \E from \in Ids(nodes), to \in Ids(nodes) : LinkAt(from, to, "calls")
    \/ \E id \in Ids(nodes) : RemoveConceptAt(id, "r1")
    \/ TickHeld

SpecTravel == Init /\ [][NextTravel]_vars

\* Stores built with insertNodeRaw / insertEdgeRaw, which take the timestamps
\* as given: node a, and a node b created at cb and removed at rb or live
\* (rb = -1), with or without an edge a -> b created at ce.
RawNode(id, name, created, removed) ==
    LET row == Stamped(NodeRow(id, name, "feature", "s1", NULLID), created, embed("s1"))
    IN IF removed < 0 THEN row
       ELSE [row EXCEPT !.removed_at = "t", !.removed_reason = "r1",
                        !.removed_at_time = removed, !.updated_at = removed]

RawStores ==
    {[nodes |-> <<RawNode(<<"a">>, <<"A">>, 0, -1), RawNode(<<"b">>, <<"B">>, cb, rb)>>,
      edges |-> es] :
        cb \in 0..1, rb \in -1..1,
        es \in {<<>>} \cup {<<StampedEdge(EdgeRow(<<"a">>, <<"b">>, "calls"), ce)>> : ce \in 0..1}}

InitAtTime ==
    /\ \E st \in RawStores : nodes = st.nodes /\ edges = st.edges
    /\ file2 = EmptyStore
    /\ labels = NoLabels
    /\ merged = FALSE
    /\ last = Op("init", NULLID, NULLID, TRUE)
    /\ pc = Idle
    /\ obs = NoObs
    /\ timeline = <<>>
    /\ now = 1
    /\ extractor = NoExtractor
    /\ schema = LatestSchema
    /\ held = <<>>
    /\ files = NoFiles
    /\ lastKnown = NoSnapshot
    /\ sseClients = <<>>
    /\ uuids = UUID_TABLE
    /\ runs = <<>>

SpecAtTime == InitAtTime /\ [][NextTravel]_vars

\* C27: for every store and every time t, each edge returned by
\* get_edges_at_time(t) has its from_id and its to_id among the ids returned
\* by get_nodes_at_time(t).
C27_EdgesAtTimeWithinNodesAtTime ==
    \A t \in 0..MaxClock :
        \A e \in Range(getEdgesAtTime(nodes, edges, t)) :
            \A end \in {e.from_id, e.to_id} :
                \E n \in Range(nodes) :
                    /\ n.id = end
                    /\ n.created_at <= t
                    /\ (n.removed_at = NULL \/ n.removed_at_time > t)

\* A store where the query returns an edge for one time and holds back the
\* same edge for another time at which it already existed.
C27_Witness ==
    \E t1, t2 \in 0..MaxClock : \E e \in Range(edges) :
        /\ e \in Range(getEdgesAtTime(nodes, edges, t1))
        /\ e.created_at <= t2
        /\ e \notin Range(getEdgesAtTime(nodes, edges, t2))

\* C28: time travel reconstructs the past graph: for every past second t,
\* get_nodes_at_time(t) and get_edges_at_time(t) are the live nodes and the
\* edges the store held at t, also after an endpoint of such an edge was
\* soft-deleted later.
C28_TimeTravelReconstructs ==
    \A i \in 1..Len(held) :
        /\ Ids(getNodesAtTime(nodes, i - 1)) = held[i].nodes
        /\ EdgeTriples(getEdgesAtTime(nodes, edges, i - 1)) = held[i].edges

\* ------------------------------------------------------------------------
\* The tools with their timeline logging.
MaxLog == 3
MaxLogEdges == 1
MutatingTools == {"create_concept", "update_concept", "link", "remove_concept", "resolve_conflict"}
ReadTools == {"understand", "list_roots", "list_conflicts"}

\* What can go wrong while an entry is appended: nothing, the INSERT throws,
\* or JSON.stringify(entry.params) throws.
Faults == {"none", "insert", "params"}

LogEntry(tool, is_error, affected_ids) ==
    [tool |-> tool, is_write |-> tool \in MutatingTools, is_error |-> is_error,
     affected_ids |-> affected_ids]

\* INSERT INTO timeline: seq is the AUTOINCREMENT key, timestamp datetime('now').
insertTimelineEntry(tl, entry, t) ==
    Append(tl, [seq |-> Len(tl) + 1, timestamp |-> t] @@ entry)

\* A logger that lets the failure out.
log_Rethrow(tl, entry, t, fault) ==
    IF fault = "none"
    THEN [timeline |-> insertTimelineEntry(tl, entry, t), threw |-> FALSE, diagnostic |-> FALSE]
    ELSE [timeline |-> tl, threw |-> TRUE, diagnostic |-> FALSE]

\* A logger that writes nothing.
log_Silent(tl, entry, t, fault) ==
    [timeline |-> tl, threw |-> FALSE, diagnostic |-> fault # "none"]

\* TimelineLogger.log: the stringify and the insert are inside the try; the
\* catch writes the message to console.error and returns.
log(tl, entry, t, fault) ==
    IF fault = "none"
    THEN [timeline |-> insertTimelineEntry(tl, entry, t), threw |-> FALSE, diagnostic |-> FALSE]
    ELSE [timeline |-> tl, threw |-> FALSE, diagnostic |-> TRUE]

\* A tool handler: the tool has run with outcome ok on the store (ns, es); the
\* handler logs the call and answers.  An exception out of the logger would
\* reach the handler's catch and turn the answer into an error.
Logged(tool, id, ns, es, ok, fault) ==
    /\ Len(timeline) < MaxLog
    /\ LET l == log(timeline, LogEntry(tool, ~ok, IF ok /\ tool \in MutatingTools THEN {id} ELSE {}),
                    now, fault)
       IN /\ timeline' = l.timeline
          /\ last' = Op(tool, id, [toolOk |-> ok, fault |-> fault, threw |-> l.threw,
                                   diagnostic |-> l.diagnostic], ok /\ ~l.threw)
    /\ nodes' = ns
    /\ edges' = es
    /\ UNCHANGED <<file2, labels, merged, pc, obs, now, extractor, schema, held, files, lastKnown, sseClients, uuids, runs>>

UnderstandLogged(fault) ==
    Logged("understand", NULLID, nodes, edges, TRUE, fault)

CreateConceptLogged(name, summary, fault) ==
    LET r == createConceptAt(nodes, edges, name, summary, now)
    IN Logged("create_concept", r.id, r.nodes, r.edges, r.ok, fault)

UpdateConceptLogged(id, changes, fault) ==
    LET r == updateConcept(nodes, id, changes, now)
    IN Logged("update_concept", id, r.nodes, edges, r.ok, fault)

LinkLogged(from, to, relation, fault) ==
    /\ Len(edges) < MaxLogEdges
    /\ LET r == linkAt(nodes, edges, from, to, relation, now)
       IN Logged("link", from, nodes, r.edges, r.ok, fault)

RemoveConceptLogged(id, reason, fault) ==
    LET r == softDeleteNodeAt(nodes, edges, id, reason, now)
    IN Logged("remove_concept", id, r.nodes, r.edges, r.changed, fault)

ListRootsLogged(fault) ==
    Logged("list_roots", NULLID, nodes, edges, TRUE, fault)

ListConflictsLogged(fault) ==
    Logged("list_conflicts", NULLID, nodes, edges, TRUE, fault)

ResolveConflictLogged(mergeGroup, resolved, fault) ==
    LET r == resolveConflict(nodes, edges, mergeGroup, resolved)
    IN Logged("resolve_conflict", r.id, r.nodes, r.edges, r.ok, fault)

\* The store of a server start: empty, or holding the conflict pair of a merge.
TimelineStores ==
    {<<>>,
     <<[RawNode(CanonA \o MERGE_SUFFIX_LEFT, <<"A">>, 0, -1)
          EXCEPT !.merge_group = "ga1", !.needs_merge = 1, !.source_branch = <<"l", "e", "f", "t">>],
       [RawNode(CanonA \o MERGE_SUFFIX_RIGHT, <<"A">>, 0, -1)
          EXCEPT !.summary = "s2", !.merge_group = "ga1", !.needs_merge = 1,
                 !.source_branch = <<"r", "i", "g", "h", "t">>]>>}

InitTimeline ==
    /\ nodes \in TimelineStores
    /\ edges = <<>>
    /\ file2 = EmptyStore
    /\ labels = NoLabels
    /\ merged = FALSE
    /\ last = Op("init", NULLID, NULLID, TRUE)
    /\ pc = Idle
    /\ obs = NoObs
    /\ timeline = <<>>
    /\ now = 0
    /\ extractor = NoExtractor
    /\ schema = LatestSchema
    /\ held = <<>>
    /\ files = NoFiles
    /\ lastKnown = NoSnapshot
    /\ sseClients = <<>>
    /\ uuids = UUID_TABLE
    /\ runs = <<>>

NextTimeline ==
    \E fault \in Faults :
        \/ UnderstandLogged(fault)
        \/ CreateConceptLogged(<<"A">>, "s1", fault)
        \/ \E id \in {CanonA, NoSuchId} :
               UpdateConceptLogged(id, [NoChange EXCEPT !.summary = "s2"], fault)
        \/ LinkLogged(CanonA, CanonA, "calls", fault)
        \/ \E id \in {CanonA, NoSuchId} : RemoveConceptLogged(id, "r1", fault)
        \/ ListRootsLogged(fault)
        \/ ListConflictsLogged(fault)
        \/ \E g \in {"ga1"}, resolved \in ResolvedInputs : ResolveConflictLogged(g, resolved, fault)

SpecTimeline == InitTimeline /\ [][NextTimeline]_vars

\* The step appends exactly one entry for the tool of the step.
AppendsOne ==
    /\ Len(timeline') = Len(timeline) + 1
    /\ SubSeq(timeline', 1, Len(timeline)) = timeline
    /\ LET e == timeline'[Len(timeline')]
       IN /\ \A i \in 1..Len(timeline) : e.seq > timeline[i].seq
          /\ e.tool = last'.op
          /\ e.is_write = (last'.op \in MutatingTools)

C25_LogFailureIsSwallowed ==
    (last.op # "init" /\ last.arg.fault # "none") =>
        /\ ~last.arg.threw
        /\ last.arg.diagnostic
        /\ last.ok = last.arg.toolOk

\* A mutating tool succeeded and its timeline entry could not be appended.
C25_Witness ==
    /\ last.op \in MutatingTools
    /\ last.arg.fault # "none"
    /\ last.ok
    /\ nodes # <<>>

\* ------------------------------------------------- merge CLI, with --into
\* The paths `megamemory merge` may be given as --into: none (UNDEF), file1
\* itself, file2, or a third path.
IntoInputs == {"undefined", "file1", "file2", "out"}

\* The rows a store file holds; a path with no file opens as an empty store
\* (new KnowledgeDB(outputPath) creates it).
Opened(f) == IF f = Absent THEN EmptyStore ELSE f

\* MergeEngine.merge with the output database that the output path opens:
\* performMerge reads both inputs first and then inserts into outputDb, one
\* statement at a time and outside any transaction, so the rows written
\* before an INSERT throws stay in the output file.
mergeInto(out, left, right, options) ==
    LET leftLabel == IF options.leftLabel = UNDEF THEN LEFT ELSE options.leftLabel
        rightLabel == IF options.rightLabel = UNDEF THEN RIGHT ELSE options.rightLabel
        ids == allIds(left.nodes, right.nodes)
        start == [MergeStart EXCEPT !.nodes = out.nodes, !.edges = out.edges]
        p1 == pass1(start, ids, left.nodes, left.edges, right.nodes, right.edges,
                    leftLabel, rightLabel)
        p2 == IF p1.failed THEN p1
              ELSE pass2(p1, ids, left.nodes, left.edges, right.nodes, right.edges)
    IN insertDeferred(p2, p2.deferred)

\* `megamemory merge <file1> <file2> [--into <output>]`
RunMergeInto(into) ==
    /\ ~merged
    /\ LET outputPath == IF into = "undefined" THEN "file1" ELSE into
           isOverwrite == outputPath = "file1"
           left == [nodes |-> nodes, edges |-> edges]
           out == CASE isOverwrite -> EmptyStore
                    [] outputPath = "file2" -> file2
                    [] OTHER -> Opened(files.into)
           r == mergeInto(out, left, file2, labels)
           written == [nodes |-> r.nodes, edges |-> r.edges]
       IN /\ IF isOverwrite /\ ~r.failed
             THEN nodes' = r.nodes /\ edges' = r.edges
             ELSE UNCHANGED <<nodes, edges>>
          /\ file2' = IF outputPath = "file2" THEN written ELSE file2
          /\ files' = [files EXCEPT !.into = IF outputPath = "out" THEN written ELSE @]
          /\ last' = Op("merge", NULLID,
                        [into |-> into, before |-> [file1 |-> left, file2 |-> file2],
                         merged |-> written], ~r.failed)
    /\ merged' = TRUE
    /\ UNCHANGED <<labels, pc, obs, timeline, now, extractor, schema, held, lastKnown, sseClients, uuids, runs>>

InitInto ==
    /\ \E left \in InputStores : nodes = left.nodes /\ edges = left.edges
    /\ file2 \in InputStores
    /\ labels = NoLabels
    /\ merged = FALSE
    /\ last = Op("init", NULLID, NULLID, TRUE)
    /\ pc = Idle
    /\ obs = NoObs
    /\ timeline = <<>>
    /\ now = 0
    /\ extractor = NoExtractor
    /\ schema = LatestSchema
    /\ held = <<>>
    /\ files = NoFiles
    /\ lastKnown = NoSnapshot
    /\ sseClients = <<>>
    /\ uuids = UUID_TABLE
    /\ runs = <<>>

NextInto ==
    \/ \E into \in IntoInputs : RunMergeInto(into)

SpecInto == InitInto /\ [][NextInto]_vars

\* C31: the merge command never leaves an input store partially written:
\* file2 is never modified; file1 is replaced only when no --into is given,
\* only after the merge has succeeded and only by the complete merged store;
\* after a failed merge file1 and file2 hold the nodes and edges they held
\* before and no temp file is left.  For every --into, file2's path included
\* (an --into that names file1 itself is read as no --into: same output path).
C31_InputsNeverPartlyWritten ==
    last.op = "merge" =>
        LET before == last.arg.before
            file1Now == [nodes |-> nodes, edges |-> edges]
        IN /\ file2 = before.file2
           /\ file1Now /= before.file1 =>
                 /\ last.arg.into \in {"undefined", "file1"}
                 /\ last.ok
                 /\ file1Now = last.arg.merged
           /\ ~last.ok => file1Now = before.file1 /\ files.tmp = Absent

\* ------------------------------------------------------- embeddings: findTopK
\* A column of type Buffer | null: no buffer, or the float32 values it holds.
NULLBUF == [null |-> TRUE]
Buffer(vec) == [null |-> FALSE, vec |-> vec]

MaxCandidates == 3
MaxTopK == 3
Vectors == {<<1, 0>>, <<0, 1>>, <<1, 1>>, <<-1, 0>>}
EmbeddingInputs == {NULLBUF, Buffer(<<>>)} \cup {Buffer(v) : v \in Vectors}
\* The id of the i-th candidate.
CandidateId(i) == [j \in 1..i |-> "c"]

RECURSIVE Dot(_, _)
Dot(a, b) == IF a = <<>> THEN 0 ELSE a[1] * b[1] + Dot(Tail(a), Tail(b))

\* A similarity dot / (sqrt(normA) * sqrt(normB)), kept exact as the pair of
\* dot and normA * normB; 0 when the denominator is 0.
DimensionMismatch == [threw |-> TRUE]
cosineSimilarity(a, b) ==
    IF Len(a.vec) # Len(b.vec) THEN DimensionMismatch
    ELSE LET den == Dot(a.vec, a.vec) * Dot(b.vec, b.vec)
         IN IF den = 0 THEN [threw |-> FALSE, dot |-> 0, den |-> 1]
            ELSE [threw |-> FALSE, dot |-> Dot(a.vec, b.vec), den |-> den]

\* The order of two similarities: x < y, by cross-multiplying the signed squares.
SignedSquare(x) == IF x.dot < 0 THEN 0 - x.dot * x.dot ELSE x.dot * x.dot
Less(x, y) == SignedSquare(x) * y.den < SignedSquare(y) * x.den

\* Array.prototype.sort((a, b) => b.similarity - a.similarity): stable,
\* descending.
RECURSIVE InsertDesc(_, _)
InsertDesc(sorted, x) ==
    IF sorted = <<>> THEN <<x>>
    ELSE IF Less(Head(sorted).similarity, x.similarity) THEN <<x>> \o sorted
    ELSE <<Head(sorted)>> \o InsertDesc(Tail(sorted), x)

RECURSIVE SortDesc(_, _)
SortDesc(sorted, rest) ==
    IF rest = <<>> THEN sorted ELSE SortDesc(InsertDesc(sorted, Head(rest)), Tail(rest))

Slice(s, k) == SubSeq(s, 1, IF k < Len(s) THEN k ELSE Len(s))

\* findTopK: a throw of cosineSimilarity inside map leaves findTopK.
findTopK(queryEmbedding, candidates, topK) ==
    LET kept == SelectSeq(candidates, LAMBDA c : c.embedding # NULLBUF)
        scored == MapSeq(kept, LAMBDA c :
                      [id |-> c.id,
                       similarity |-> cosineSimilarity(queryEmbedding, c.embedding)])
    IN IF \E i \in 1..Len(scored) : scored[i].similarity.threw
       THEN [threw |-> TRUE, result |-> <<>>]
       ELSE [threw |-> FALSE, result |-> Slice(SortDesc(<<>>, scored), topK)]

CandidateInputs ==
    UNION {{[i \in 1..n |-> [id |-> CandidateId(i), embedding |-> f[i]]] :
               f \in [1..n -> EmbeddingInputs]} : n \in 0..MaxCandidates}

FindTopK(query, topK) ==
    /\ last.op = "init"
    /\ LET r == findTopK(Buffer(query), nodes, topK)
       IN last' = Op("find_top_k", NULLID,
                     [query |-> query, topK |-> topK, threw |-> r.threw, result |-> r.result],
                     ~r.threw)
    /\ UNCHANGED <<nodes, edges, file2, labels, merged, pc, obs, timeline, now, extractor,
                   schema, held, files, lastKnown, sseClients, uuids, runs>>

InitTopK ==
    /\ nodes \in CandidateInputs
    /\ edges = <<>>
    /\ file2 = EmptyStore
    /\ labels = NoLabels
    /\ merged = FALSE
    /\ last = Op("init", NULLID, NULLID, TRUE)
    /\ pc = Idle
    /\ obs = NoObs
    /\ timeline = <<>>
    /\ now = 0
    /\ extractor = NoExtractor
    /\ schema = LatestSchema
    /\ held = <<>>
    /\ files = NoFiles
    /\ lastKnown = NoSnapshot
    /\ sseClients = <<>>
    /\ uuids = UUID_TABLE
    /\ runs = <<>>

NextTopK ==
    \/ \E query \in {<<1, 0>>, <<0, 1>>}, topK \in 0..MaxTopK : FindTopK(query, topK)

SpecTopK == InitTopK /\ [][NextTopK]_vars

\* C32: find_top_k(query, candidates, k) returns exactly min(k, m) pairs,
\* m the number of candidates whose embedding is neither null nor
\* zero-length; the pairs are in non-increasing order of similarity; the
\* candidates with a null or zero-length embedding are skipped and no error
\* is raised.
C32_TopK ==
    last.op = "find_top_k" =>
        LET usable == {i \in 1..Len(nodes) :
                          nodes[i].embedding # NULLBUF /\ nodes[i].embedding # Buffer(<<>>)}
            m == Cardinality(usable)
            k == last.arg.topK
            result == last.arg.result
        IN /\ ~last.arg.threw
           /\ Len(result) = (IF k < m THEN k ELSE m)
           /\ \A i \in 1..Len(result) - 1 :
                 ~Less(result[i].similarity, result[i + 1].similarity)
           /\ \A i \in 1..Len(result) : \E j \in usable : nodes[j].id = result[i].id

\* ------------------------------------------------ merge: edgeSetsAreIdentical
\* The outgoing edges of one node in the two inputs: lists of at most
\* MaxSetLen edges from a to b or to c.  Both inputs hold a, b and c; they
\* differ in the summary of a.
MaxSetLen == 3
SetEdges == {EdgeRow(CanonA, t, "calls") : t \in {CanonB, <<"c">>}}
EdgeListInputs == UNION {[1..n -> SetEdges] : n \in 0..MaxSetLen}
SetNodes(summary) ==
    <<NodeRow(CanonA, <<"A">>, "feature", summary, NULLID),
      NodeRow(CanonB, <<"B">>, "feature", "s1", NULLID),
      NodeRow(<<"c">>, <<"C">>, "feature", "s1", NULLID)>>

CompareEdgeSets ==
    /\ last.op = "init"
    /\ last' = Op("edgeSetsAreIdentical", NULLID, edgeSetsAreIdentical(edges, file2.edges), TRUE)
    /\ UNCHANGED <<nodes, edges, file2, labels, merged, pc, obs, timeline, now, extractor,
                   schema, held, files, lastKnown, sseClients, uuids, runs>>

InitEdgeSets ==
    /\ nodes = SetNodes("s1")
    /\ edges \in EdgeListInputs
    /\ \E right \in EdgeListInputs : file2 = [nodes |-> SetNodes("s2"), edges |-> right]
    /\ labels = NoLabels
    /\ merged = FALSE
    /\ last = Op("init", NULLID, NULLID, TRUE)
    /\ pc = Idle
    /\ obs = NoObs
    /\ timeline = <<>>
    /\ now = 0
    /\ extractor = NoExtractor
    /\ schema = LatestSchema
    /\ held = <<>>
    /\ files = NoFiles
    /\ lastKnown = NoSnapshot
    /\ sseClients = <<>>
    /\ uuids = UUID_TABLE
    /\ runs = <<>>

NextEdgeSets ==
    \/ CompareEdgeSets
    \/ RunMerge

SpecEdgeSets == InitEdgeSets /\ [][NextEdgeSets]_vars

\* How many edges of the list have the given (from_id, to_id, relation, description).
Multiplicity(es, e) ==
    Cardinality({i \in 1..Len(es) :
                    /\ es[i].from_id = e.from_id
                    /\ es[i].to_id = e.to_id
                    /\ es[i].relation = e.relation
                    /\ es[i].description = e.description})

\* C33: edge_sets_are_identical(L, R) is true exactly when L and R are equal
\* as multisets of (from_id, to_id, relation, description); two lists of
\* equal length with the same distinct keys in different multiplicities are
\* not identical.
C33_EdgeSetsAsMultisets ==
    last.op = "edgeSetsAreIdentical" =>
        (last.arg <=> \A e \in Range(edges) \cup Range(file2.edges) :
                          Multiplicity(edges, e) = Multiplicity(file2.edges, e))

\* ------------------------------------------------------ merge: edge conflicts
\* The outgoing edges of the unsuffixed id c in an input.
OutgoingOf(es, c) == SelectSeq(es, LAMBDA e : e.from_id = c)

\* The two inputs hold different multisets of outgoing edges for c.
EdgeSetsDiffer(c) ==
    LET l == OutgoingOf(edges, c)
        r == OutgoingOf(file2.edges, c)
    IN \E e \in Range(l) \cup Range(r) : Multiplicity(l, e) # Multiplicity(r, e)

\* Every edge of es leaving id carries (needs_merge, merge_group, source_branch).
EdgesFromCarry(es, id, needsMerge, mergeGroup, sourceBranch) ==
    \A o \in Range(es) :
        o.from_id = id => /\ o.needs_merge = needsMerge
                          /\ o.merge_group = mergeGroup
                          /\ o.source_branch = sourceBranch

\* C34: after a merge the outgoing edges of each newly conflicted node carry
\* needs_merge = 1, the node's merge_group and the label of their side
\* exactly when the left and right outgoing edge sets of the node are not
\* identical, and no merge metadata otherwise; edge_conflicts is the number
\* of newly conflicted nodes whose edge sets differ; no edge whose source is
\* a non-conflicted node has needs_merge = 1.
C34_EdgeConflictFlags ==
    [][MergeStep =>
         /\ \A c \in NewConflictIds :
              LET g == getNodeIncludingRemoved(nodes', c \o MERGE_SUFFIX_LEFT).merge_group
              IN IF EdgeSetsDiffer(c)
                 THEN /\ EdgesFromCarry(edges', c \o MERGE_SUFFIX_LEFT, 1, g, LeftLabel)
                      /\ EdgesFromCarry(edges', c \o MERGE_SUFFIX_RIGHT, 1, g, RightLabel)
                 ELSE /\ EdgesFromCarry(edges', c \o MERGE_SUFFIX_LEFT, 0, NULL, NULLID)
                      /\ EdgesFromCarry(edges', c \o MERGE_SUFFIX_RIGHT, 0, NULL, NULLID)
         /\ \A c \in NewConflictIds :
              Len(OutgoingOf(edges', c \o MERGE_SUFFIX_LEFT)) = Len(OutgoingOf(edges, c))
              /\ Len(OutgoingOf(edges', c \o MERGE_SUFFIX_RIGHT)) = Len(OutgoingOf(file2.edges, c))
         /\ last'.arg.edgeConflicts = Cardinality({c \in NewConflictIds : EdgeSetsDiffer(c)})
         /\ \A o \in Range(edges') :
               o.needs_merge = 1 => getNodeIncludingRemoved(nodes', o.from_id).needs_merge = 1]_vars

\* --------------------------------------------------- merge: the same pair twice
\* What randomUUID() may return during one merge: any sequence of distinct
\* identifiers that no input holds.
UuidDraws == {<<"u1", "u2">>, <<"u2", "u1">>, <<"u3", "u4">>}

\* engine.merge(file1, file2, <a fresh output path>): the inputs are left as
\* they are; the next run draws its own identifiers.
EngineMerge ==
    /\ Len(runs) < 2
    /\ LET r == merge([nodes |-> nodes, edges |-> edges], file2, labels)
       IN /\ runs' = Append(runs, [ok |-> ~r.failed, nodes |-> r.nodes, edges |-> r.edges,
                                   clean |-> r.clean, conceptConflicts |-> r.conceptConflicts,
                                   edgeConflicts |-> r.edgeConflicts,
                                   removedClean |-> r.removedClean,
                                   mergeGroups |-> r.mergeGroups])
          /\ last' = Op("merge", NULLID, NULLID, ~r.failed)
    /\ uuids' \in UuidDraws
    /\ UNCHANGED <<nodes, edges, file2, labels, merged, pc, obs, timeline, now, extractor,
                   schema, held, files, lastKnown, sseClients>>

InitTwice ==
    /\ \E left \in InputStores : nodes = left.nodes /\ edges = left.edges
    /\ file2 \in InputStores
    /\ labels = NoLabels
    /\ merged = FALSE
    /\ last = Op("init", NULLID, NULLID, TRUE)
    /\ pc = Idle
    /\ obs = NoObs
    /\ timeline = <<>>
    /\ now = 0
    /\ extractor = NoExtractor
    /\ schema = LatestSchema
    /\ held = <<>>
    /\ files = NoFiles
    /\ lastKnown = NoSnapshot
    /\ sseClients = <<>>
    /\ uuids = UUID_TABLE
    /\ runs = <<>>

NextTwice ==
    \/ EngineMerge

SpecTwice == InitTwice /\ [][NextTwice]_vars

\* The merge_group g of the first run, renamed to the group the second run
\* minted at the same position; a group carried from an input keeps its name.
RenamedGroup(g) ==
    IF \E k \in 1..Len(runs[1].mergeGroups) : runs[1].mergeGroups[k] = g
    THEN runs[2].mergeGroups[CHOOSE k \in 1..Len(runs[1].mergeGroups) : runs[1].mergeGroups[k] = g]
    ELSE g
RenamedRows(rows) == {[row EXCEPT !.merge_group = RenamedGroup(@)] : row \in Range(rows)}

\* C35: merge is deterministic up to conflict identifiers: two runs on the
\* same pair of inputs with the same labels yield equal clean,
\* concept_conflicts, edge_conflicts and removed_clean, and outputs whose
\* node and edge sets are equal once the merge_group identifiers of one run
\* are renamed to those of the other (merge_timestamp left aside).
C35_MergeTwiceSame ==
    Len(runs) = 2 =>
        /\ runs[1].ok = runs[2].ok
        /\ runs[1].clean = runs[2].clean
        /\ runs[1].conceptConflicts = runs[2].conceptConflicts
        /\ runs[1].edgeConflicts = runs[2].edgeConflicts
        /\ runs[1].removedClean = runs[2].removedClean
        /\ Len(runs[1].mergeGroups) = Len(runs[2].mergeGroups)
        /\ RenamedRows(runs[1].nodes) = Range(runs[2].nodes)
        /\ RenamedRows(runs[1].edges) = Range(runs[2].edges)
        /\ Len(runs[1].nodes) = Len(runs[2].nodes)
        /\ Len(runs[1].edges) = Len(runs[2].edges)

\* Two runs have split both a and b, the second with other identifiers than
\* the first, and stored an edge.
C35_Witness ==
    /\ Len(runs) = 2
    /\ runs[1].ok /\ runs[2].ok
    /\ runs[1].conceptConflicts = 2
    /\ runs[1].mergeGroups # runs[2].mergeGroups
    /\ runs[1].edges # <<>>

\* ------------------------------------------------ explorer: the merged timeline
\* String.prototype.localeCompare on ids: punctuation sorts before letters.
CharOrder == <<"-", "/", ":", "a", "b", "c", "d", "e", "f", "g", "h", "i", "j", "k", "l", "m",
               "n", "o", "p", "q", "r", "s", "t", "u", "v", "w", "x", "y", "z">>
CharRank(c) == CHOOSE i \in 1..Len(CharOrder) : CharOrder[i] = c

RECURSIVE localeCompare(_, _)
localeCompare(a, b) ==
    IF a = <<>> /\ b = <<>> THEN 0
    ELSE IF a = <<>> THEN -1
    ELSE IF b = <<>> THEN 1
    ELSE IF CharRank(Head(a)) < CharRank(Head(b)) THEN -1
    ELSE IF CharRank(Head(a)) > CharRank(Head(b)) THEN 1
    ELSE localeCompare(Tail(a), Tail(b))

\* An entry staged by buildNodeTimestampEntries.
StagedEntry(node, timestamp, tool, summary, order) ==
    [timestamp |-> timestamp, tool |-> tool, result_summary |-> summary, is_write |-> TRUE,
     is_error |-> FALSE, affected_ids |-> {node.id}, id |-> node.id, order |-> order]

\* The entries of one node: created, updated (when updated_at differs from
\* created_at) and removed (when removed_at is set).
stagedOf(node) ==
    <<StagedEntry(node, node.created_at, "create_concept", "created", 0)>>
    \o (IF node.updated_at # node.created_at
        THEN <<StagedEntry(node, node.updated_at, "update_concept", "updated", 1)>> ELSE <<>>)
    \o (IF node.removed_at # NULL
        THEN <<StagedEntry(node, node.removed_at_time, "remove_concept", "removed", 2)>> ELSE <<>>)

RECURSIVE stagedAll(_)
stagedAll(ns) == IF ns = <<>> THEN <<>> ELSE stagedOf(Head(ns)) \o stagedAll(Tail(ns))

\* The comparator of staged.sort: timestamp, then order, then id.
StagedBefore(a, b) ==
    \/ a.timestamp < b.timestamp
    \/ a.timestamp = b.timestamp /\ a.order < b.order
    \/ a.timestamp = b.timestamp /\ a.order = b.order /\ localeCompare(a.id, b.id) < 0

RECURSIVE InsertStaged(_, _)
InsertStaged(sorted, x) ==
    IF sorted = <<>> THEN <<x>>
    ELSE IF StagedBefore(x, Head(sorted)) THEN <<x>> \o sorted
    ELSE <<Head(sorted)>> \o InsertStaged(Tail(sorted), x)

RECURSIVE SortStaged(_, _)
SortStaged(sorted, rest) ==
    IF rest = <<>> THEN sorted ELSE SortStaged(InsertStaged(sorted, Head(rest)), Tail(rest))

\* The view of an entry, numbered seq.
View(e, seq) ==
    [seq |-> seq, timestamp |-> e.timestamp, tool |-> e.tool, result_summary |-> e.result_summary,
     is_write |-> e.is_write, is_error |-> e.is_error, affected_ids |-> e.affected_ids]

buildNodeTimestampEntries(ns) ==
    LET staged == SortStaged(<<>>, stagedAll(ns))
    IN [i \in 1..Len(staged) |-> View(staged[i], i)]

\* The options of a timeline query; -1 and UNDEFINED stand for an option left out.
NoOptions == [writesOnly |-> FALSE, tool |-> UNDEFINED, since |-> -1, until |-> -1, limit |-> -1]

\* db.getTimelineEntries({writesOnly, tool, since, until}): the rows in seq
\* order that pass the filters; the summary of a logged row is the handler's.
getTimelineEntries(tl, options) ==
    MapSeq(SelectSeq(tl, LAMBDA row :
                /\ options.writesOnly => row.is_write
                /\ options.tool = UNDEFINED \/ row.tool = options.tool
                /\ options.since < 0 \/ row.timestamp >= options.since
                /\ options.until < 0 \/ row.timestamp <= options.until),
           LAMBDA row : View(row @@ [result_summary |-> "logged"], row.seq))

\* The stable sort of merged by timestamp (ties keep their index order).
RECURSIVE InsertByTime(_, _)
InsertByTime(sorted, x) ==
    IF sorted = <<>> THEN <<x>>
    ELSE IF x.timestamp < Head(sorted).timestamp THEN <<x>> \o sorted
    ELSE <<Head(sorted)>> \o InsertByTime(Tail(sorted), x)

RECURSIVE SortByTime(_, _)
SortByTime(sorted, rest) ==
    IF rest = <<>> THEN sorted ELSE SortByTime(InsertByTime(sorted, Head(rest)), Tail(rest))

\* A lookup that finds no real entry.
realIds_None(realEntries, tool) == {}

\* The ids of the real entries of a tool.
realIds(realEntries, tool) ==
    UNION {realEntries[i].affected_ids : i \in {j \in 1..Len(realEntries) : realEntries[j].tool = tool}}

buildMergedTimelineEntries(ns, tl, options) ==
    LET syntheticEntries ==
            SelectSeq(buildNodeTimestampEntries(ns), LAMBDA entry :
                /\ options.tool = UNDEFINED \/ entry.tool = options.tool
                /\ options.since < 0 \/ entry.timestamp >= options.since
                /\ options.until < 0 \/ entry.timestamp <= options.until)
        realEntries == IF Len(tl) > 0 THEN getTimelineEntries(tl, options) ELSE <<>>
        dedupedSyntheticEntries ==
            SelectSeq(syntheticEntries, LAMBDA entry :
                /\ options.writesOnly => entry.is_write
                /\ \A id \in entry.affected_ids :
                      CASE entry.tool = "create_concept" ->
                               id \notin realIds(realEntries, "create_concept")
                        [] entry.tool = "update_concept" ->
                               id \notin realIds(realEntries, "update_concept")
                        [] entry.tool = "remove_concept" ->
                               id \notin realIds(realEntries, "remove_concept")
                        [] OTHER -> TRUE)
        sorted == SortByTime(<<>>, realEntries \o dedupedSyntheticEntries)
        renumbered == [i \in 1..Len(sorted) |-> [sorted[i] EXCEPT !.seq = i]]
        limited == IF options.limit >= 0 THEN Slice(renumbered, options.limit) ELSE renumbered
    IN [entries |-> limited,
        source |-> IF Len(realEntries) > 0 /\ Len(dedupedSyntheticEntries) > 0 THEN "merged"
                   ELSE IF Len(realEntries) > 0 THEN "timeline" ELSE "node_timestamps"]

\* The options the explorer passes.
OptionInputs ==
    {NoOptions,
     [NoOptions EXCEPT !.writesOnly = TRUE],
     [NoOptions EXCEPT !.tool = "update_concept"],
     [NoOptions EXCEPT !.since = 1],
     [NoOptions EXCEPT !.until = 0],
     [NoOptions EXCEPT !.limit = 1]}

\* GET /api/timeline: the merged entries of the store as it is.
GetTimeline(options) ==
    /\ LET r == buildMergedTimelineEntries(nodes, timeline, options)
       IN last' = Op("timeline", NULLID,
                     [options |-> options, entries |-> r.entries, source |-> r.source], TRUE)
    /\ UNCHANGED <<nodes, edges, file2, labels, merged, pc, obs, timeline, now, extractor,
                   schema, held, files, lastKnown, sseClients, uuids, runs>>

\* The store of a server start: empty, or a store written before the
\* timeline table existed, holding a as created at second 0, then updated
\* or removed at second 0 or not.
HistoryStores ==
    {<<>>,
     <<RawNode(CanonA, <<"A">>, 0, -1)>>,
     <<RawNode(CanonA, <<"A">>, 0, 0)>>,
     <<[RawNode(CanonB, <<"B">>, 0, -1) EXCEPT !.updated_at = 1]>>}

InitHistory ==
    /\ nodes \in HistoryStores
    /\ edges = <<>>
    /\ file2 = EmptyStore
    /\ labels = NoLabels
    /\ merged = FALSE
    /\ last = Op("init", NULLID, NULLID, TRUE)
    /\ pc = Idle
    /\ obs = NoObs
    /\ timeline = <<>>
    /\ now = 1
    /\ extractor = NoExtractor
    /\ schema = LatestSchema
    /\ held = <<>>
    /\ files = NoFiles
    /\ lastKnown = NoSnapshot
    /\ sseClients = <<>>
    /\ uuids = UUID_TABLE
    /\ runs = <<>>

NextHistory ==
    \/ \E fault \in {"none", "insert"} :
          \/ CreateConceptLogged(<<"A">>, "s1", fault)
          \/ UpdateConceptLogged(CanonA, [NoChange EXCEPT !.summary = "s2"], fault)
          \/ RemoveConceptLogged(CanonA, "r1", fault)
    \/ Tick
    \/ \E options \in OptionInputs : GetTimeline(options)

SpecHistory == InitHistory /\ [][NextHistory]_vars

\* An entry synthesised from a node's timestamps.
IsSynthetic(e) == e.result_summary \in {"created", "updated", "removed"}

\* C36: in the merged timeline no underlying event appears twice: a
\* synthetic entry of create_concept, update_concept or remove_concept for a
\* node id is present only if the result holds no real entry of that tool
\* whose affected_ids contain the id (and no second synthetic entry of that
\* tool for the id); the entries are numbered seq = 1..N in non-decreasing
\* timestamp order.
C36_MergedTimelineDeduplicated ==
    last.op = "timeline" =>
        LET es == last.arg.entries
        IN /\ \A i \in 1..Len(es) : es[i].seq = i
           /\ \A i \in 1..Len(es) - 1 : es[i].timestamp <= es[i + 1].timestamp
           /\ \A i \in 1..Len(es), j \in 1..Len(es) :
                 (/\ i # j
                  /\ IsSynthetic(es[i])
                  /\ es[j].tool = es[i].tool)
                 => es[i].affected_ids \cap es[j].affected_ids = {}

\* The merged timeline holds the logged create_concept of a and, from the
\* timestamps of a, the synthetic update_concept only: the synthetic
\* create_concept was dropped.
C36_Witness ==
    /\ last.op = "timeline"
    /\ last.arg.source = "merged"
    /\ LET es == last.arg.entries
       IN /\ \E i \in 1..Len(es) :
                ~IsSynthetic(es[i]) /\ es[i].tool = "create_concept" /\ CanonA \in es[i].affected_ids
          /\ \E i \in 1..Len(es) :
                IsSynthetic(es[i]) /\ es[i].tool = "update_concept" /\ CanonA \in es[i].affected_ids
          /\ ~\E i \in 1..Len(es) : IsSynthetic(es[i]) /\ es[i].tool = "create_concept"
          /\ idExists(nodes, CanonA)

\* ------------------------------------------------ merge: a parent and its child
\* The inputs: a is absent, live or soft-deleted; with a present its child
\* a/a is absent, live or soft-deleted.
TreeSlots(summaries) ==
    {[slot |-> "absent"]}
    \cup {[slot |-> "live", summary |-> s] : s \in summaries}
    \cup {[slot |-> "removed", summary |-> "s1"]}
TreeStores ==
    {[nodes |-> <<>>, edges |-> <<>>]}
    \cup {[nodes |-> slotRows(CanonA, <<"A">>, sa)
                     \o MapSeq(slotRows(ChildA, <<"A">>, sc),
                               LAMBDA n : [n EXCEPT !.parent_id = CanonA]),
           edges |-> <<>>] :
             sa \in TreeSlots(Summaries) \ {[slot |-> "absent"]}, sc \in TreeSlots(Summaries)}

InitTree ==
    /\ \E left \in TreeStores : nodes = left.nodes /\ edges = left.edges
    /\ file2 \in TreeStores
    /\ labels = NoLabels
    /\ merged = FALSE
    /\ last = Op("init", NULLID, NULLID, TRUE)
    /\ pc = Idle
    /\ obs = NoObs
    /\ timeline = <<>>
    /\ now = 0
    /\ extractor = NoExtractor
    /\ schema = LatestSchema
    /\ held = <<>>
    /\ files = NoFiles
    /\ lastKnown = NoSnapshot
    /\ sseClients = <<>>
    /\ uuids = UUID_TABLE
    /\ runs = <<>>

NextTree ==
    \/ RunMerge

SpecTree == InitTree /\ [][NextTree]_vars

\* The canonical id c is the parent_id of a node of an input.
HasChildren(c) == \E n \in Range(nodes) \cup Range(file2.nodes) : n.parent_id = c

\* C37: when a concept that has child concepts is conflicted between the two
\* inputs (stored as <id>::left and <id>::right, no node keeping the
\* unsuffixed id), the merge still completes, and every node of the output
\* with a non-null parent_id refers to a node of the output.
C37_ConflictedParentMerges ==
    [][(/\ ~merged
        /\ last'.op = "merge"
        /\ \E c \in NewConflictIds : HasChildren(c))
       => /\ last'.ok
          /\ \A n \in Range(nodes') : n.parent_id # NULLID => idExists(nodes', n.parent_id)]_vars

\* ------------------------------------------- resolve after later tool calls
\* The merged store keeps serving the tools until the conflicts are resolved:
\* create_concept may run between `megamemory merge` and `megamemory resolve`.
ResolveStores == {s \in InputStores : s.edges = <<>>}

\* One create_concept call on the store the merge has just written.
CreateAfterMerge(name, summary) ==
    /\ merged
    /\ last.op = "merge"
    /\ LET r == createConcept(nodes, edges, name, UNDEF, summary, <<>>)
       IN /\ nodes' = r.nodes
          /\ edges' = r.edges
          /\ last' = Op("create_concept", r.id, NULLID, r.ok)
    /\ UNCHANGED <<file2, labels, merged, pc, obs, timeline, now, extractor, schema, held,
                   files, lastKnown, sseClients, uuids, runs>>

InitResolve ==
    /\ \E left \in ResolveStores : nodes = left.nodes /\ edges = left.edges
    /\ file2 \in ResolveStores
    /\ labels = NoLabels
    /\ merged = FALSE
    /\ last = Op("init", NULLID, NULLID, TRUE)
    /\ pc = Idle
    /\ obs = NoObs
    /\ timeline = <<>>
    /\ now = 0
    /\ extractor = NoExtractor
    /\ schema = LatestSchema
    /\ held = <<>>
    /\ files = NoFiles
    /\ lastKnown = NoSnapshot
    /\ sseClients = <<>>
    /\ uuids = UUID_TABLE
    /\ runs = <<>>

NextResolve ==
    \/ RunMerge
    \/ CreateAfterMerge(<<"A">>, "s1")
    \/ \E mergeGroup \in GroupInputs, keep \in KeepInputs : RunResolve(mergeGroup, keep)

SpecResolve == InitResolve /\ [][NextResolve]_vars

\* C38: resolve with keep left or keep right is all-or-nothing: when the
\* rename of the winner to the canonical id fails (a node with that id was
\* created after the merge), the loser is not deleted and the group stays
\* unresolved with both variants; otherwise the whole resolution is applied.
C38_ResolveAllOrNothing ==
    [][(/\ merged
        /\ last'.op = "resolve"
        /\ last'.id # NULLID
        /\ last'.arg[2] \in {"left", "right"})
       => IF last'.ok
          THEN last'.arg[1] \notin GroupsIn(nodes', edges')
          ELSE nodes' = nodes /\ edges' = edges]_vars

\* ------------------------------------------------ the counts of a merge
\* The pre-existing conflict variants of the two inputs, by id: the rows that
\* a merge carries forward as they are.
InputVariantIds ==
    {n.id : n \in {m \in Range(nodes) \cup Range(file2.nodes) :
                      IsVariant(m) /\ m.merge_group # NULL}}
RowsOfGroup(ns, g) == {i \in 1..Len(ns) : ns[i].merge_group = g}

\* C39: after a successful merge the output holds clean + removed_clean +
\* 2 x concept_conflicts + (carried pre-existing variants) nodes; merge_groups
\* lists concept_conflicts pairwise distinct identifiers, and each of them is
\* the merge_group of exactly two output nodes.
C39_MergeCounts ==
    [][MergeStep =>
         LET r == last'.arg
         IN /\ Len(nodes') = r.clean + r.removedClean + 2 * r.conceptConflicts
                             + Cardinality(InputVariantIds)
            /\ Len(r.mergeGroups) = r.conceptConflicts
            /\ \A i, j \in 1..Len(r.mergeGroups) :
                  i # j => r.mergeGroups[i] # r.mergeGroups[j]
            /\ \A i \in 1..Len(r.mergeGroups) :
                  Cardinality(RowsOfGroup(nodes', r.mergeGroups[i])) = 2]_vars

\* A merge that minted one new pair of variants beside a carried pair.
C39_Witness ==
    /\ merged /\ last.op = "merge" /\ last.ok
    /\ last.arg.conceptConflicts = 1
    /\ Len(nodes) = 4
    /\ \E n \in Range(nodes) : n.merge_group \in {"gb1", "ga1", "ga2"}

\* ------------------------------------------- explorer: server-sent events
MaxClients == 1

\* `${e.from_id}|${e.to_id}|${e.relation}`
sseEdgeKey(e) == <<e.from_id, e.to_id, e.relation>>

\* What initializeSseSnapshot and the end of detectChanges store: the ids and
\* updated_at of the active nodes and the keys of the edges between them.
snapshotOf(ns, es) ==
    [nodeIds |-> Ids(getAllActiveNodes(ns)),
     nodeUpdates |-> {<<n.id, n.updated_at>> : n \in Range(getAllActiveNodes(ns))},
     edgeKeys |-> {sseEdgeKey(e) : e \in Range(getAllEdges(ns, es))}]

\* The events one run of detectChanges broadcasts, by type.
NoEvents ==
    [node_added |-> {}, node_updated |-> {}, node_removed |-> {},
     edge_added |-> {}, edge_removed |-> {}, stats |-> FALSE]
changesSince(known, ns, es) ==
    LET current == snapshotOf(ns, es)
        ev == [node_added |-> current.nodeIds \ known.nodeIds,
               node_updated |-> {p[1] : p \in {q \in current.nodeUpdates :
                                                  /\ q[1] \in known.nodeIds
                                                  /\ q \notin known.nodeUpdates}},
               node_removed |-> known.nodeIds \ current.nodeIds,
               edge_added |-> current.edgeKeys \ known.edgeKeys,
               edge_removed |-> known.edgeKeys \ current.edgeKeys,
               stats |-> FALSE]
    IN [ev EXCEPT !.stats = (ev # NoEvents)]

\* A connected response stream: what the init event and the events after it
\* have told its reader to hold, and the events of the latest broadcast.
buildGraphPayload(ns, es) ==
    [nodeIds |-> Ids(getAllActiveNodes(ns)),
     edgeKeys |-> {sseEdgeKey(e) : e \in Range(getAllEdges(ns, es))}]
Told(t, ev) ==
    [nodeIds |-> (t.nodeIds \cup ev.node_added) \ ev.node_removed,
     edgeKeys |-> (t.edgeKeys \cup ev.edge_added) \ ev.edge_removed]

\* GET /api/events: the init event is written from the store as it is now and
\* the stream joins sseClients; lastKnown is not touched.
ConnectEvents ==
    /\ Len(sseClients) < MaxClients
    /\ LET initPayload == buildGraphPayload(nodes, edges)
       IN sseClients' = Append(sseClients,
                               [told |-> initPayload, got |-> NoEvents])
    /\ last' = Op("events", NULLID, NULLID, TRUE)
    /\ UNCHANGED <<nodes, edges, file2, labels, merged, pc, obs, timeline, now, extractor, schema, held,
                   files, lastKnown, uuids, runs>>

\* req.on("close"): the stream leaves sseClients.
CloseEvents(i) ==
    /\ i \in 1..Len(sseClients)
    /\ sseClients' = SubSeq(sseClients, 1, i - 1) \o SubSeq(sseClients, i + 1, Len(sseClients))
    /\ last' = Op("close", NULLID, NULLID, TRUE)
    /\ UNCHANGED <<nodes, edges, file2, labels, merged, pc, obs, timeline, now, extractor, schema, held,
                   files, lastKnown, uuids, runs>>

\* detectChanges, every 1500 ms: the difference between the store and the
\* server-wide lastKnown sets is broadcast to every stream of sseClients, then
\* lastKnown becomes the current snapshot.
DetectChanges ==
    /\ LET ev == changesSince(lastKnown, nodes, edges)
       IN /\ sseClients' = MapSeq(sseClients, LAMBDA c :
                                     [c EXCEPT !.got = ev, !.told = Told(c.told, ev)])
          /\ last' = Op("detectChanges", NULLID, NULLID, ev.stats)
    /\ lastKnown' = snapshotOf(nodes, edges)
    /\ UNCHANGED <<nodes, edges, file2, labels, merged, pc, obs, timeline, now, extractor, schema, held,
                   files, uuids, runs>>

\* The explorer is started on the empty store (initializeSseSnapshot) beside
\* a server that creates, links and removes concepts within one second, so
\* that no updated_at changes.
InitEvents ==
    /\ nodes = <<>>
    /\ edges = <<>>
    /\ file2 = EmptyStore
    /\ labels = NoLabels
    /\ merged = FALSE
    /\ last = Op("init", NULLID, NULLID, TRUE)
    /\ pc = Idle
    /\ obs = NoObs
    /\ timeline = <<>>
    /\ now = 0
    /\ extractor = NoExtractor
    /\ schema = LatestSchema
    /\ held = <<>>
    /\ files = NoFiles
    /\ lastKnown = snapshotOf(nodes, edges)
    /\ sseClients = <<>>
    /\ uuids = UUID_TABLE
    /\ runs = <<>>

NextEvents ==
    \/ \E name \in StepNames : CreateConceptAt(name, "s1")
    \/ \E from \in Ids(nodes), to \in Ids(nodes) : LinkAt(from, to, "calls")
    \/ \E id \in Ids(nodes) : RemoveConceptAt(id, "r1")
    \/ ConnectEvents
    \/ \E i \in 1..MaxClients : CloseEvents(i)
    \/ DetectChanges

SpecEvents == InitEvents /\ [][NextEvents]_vars

\* C40: a stream never gets a node_added (edge_added) event for a node (edge)
\* that its init event or an earlier event already gave it and that it was not
\* told to drop since, nor a node_removed event for a node it was never given.
C40_NoEventAboutKnown ==
    [][last'.op = "detectChanges" =>
         \A i \in 1..Len(sseClients) :
            /\ sseClients'[i].got.node_added \cap sseClients[i].told.nodeIds = {}
            /\ sseClients'[i].got.edge_added \cap sseClients[i].told.edgeKeys = {}
            /\ sseClients'[i].got.node_removed \subseteq sseClients[i].told.nodeIds]_vars

====
